---------------------------- MODULE Spec2Model ----------------------------
(***************************************************************************)
(* A model of the matrix layer of quantco/tabmat: SplitMatrix              *)
(* (split_matrix.py), SparseMatrix (sparse_matrix.py) and                  *)
(* StandardizedMatrix (standardized_mat.py).                               *)
(*                                                                         *)
(* Numbers are integers (the products are exact), numpy arrays are records *)
(* [n, k, at] with at[i][j] the entry of row i and column j (1-based),     *)
(* index arrays are sequences of 0-based indices as in the source, and an  *)
(* optional argument is <<>> (None) or <<x>> (the value x).                *)
(***************************************************************************)
EXTENDS Integers, Sequences, FiniteSets, TLC

VARIABLES
    machine,    \* platform.machine() of the importing process
    inM, inI,   \* the lists handed to the last SplitMatrix(...) call, as they were
    argM, argI, \* the same two list objects of the caller, as they are now
    obj,        \* the matrix object under test: <<>> or <<object>>
    last,       \* the last call on it: its operation, operands, result and error
    threads,    \* the threads reading obj.x_csr: position, locals, what they got
    displaced   \* the row-major views that were cached once and then replaced

vars == <<machine, inM, inI, argM, argI, obj, last, threads, displaced>>

-----------------------------------------------------------------------------
(* Bounds of the model *)

NRows == 2
MaxMats == 3

\* The threads that read the row-major view of one SparseMatrix.
NThreads == 2

-----------------------------------------------------------------------------
(* Optional values, sequences and sums *)

None == <<>>
Some(x) == <<x>>
IsNone(o) == Len(o) = 0
Get(o) == o[1]

Min(a, b) == IF a < b THEN a ELSE b

RECURSIVE SumTo(_, _)
SumTo(f, n) == IF n = 0 THEN 0 ELSE f[n] + SumTo(f, n - 1)

\* The sum of a sequence of integers.
Sum(s) == SumTo(s, Len(s))

RECURSIVE Flatten(_)
Flatten(ss) == IF Len(ss) = 0 THEN <<>> ELSE Head(ss) \o Flatten(Tail(ss))

\* The subsequence of s at the positions (1-based, ascending, from p on) in keep.
RECURSIVE SelectPos(_, _, _)
SelectPos(s, p, keep) ==
    IF p > Len(s) THEN <<>>
    ELSE (IF p \in keep THEN <<s[p]>> ELSE <<>>) \o SelectPos(s, p + 1, keep)

\* The positions of the set keep among 1..n, ascending.
Positions(n, keep) == SelectPos([p \in 1..n |-> p], 1, keep)

\* np.arange(n): 0, 1, ..., n-1.
Arange(n) == [p \in 1..n |-> p - 1]

\* The 1-based position of x in the sequence s (x occurs in s).
PosOf(s, x) == CHOOSE p \in 1..Len(s) : s[p] = x /\ \A q \in 1..(p - 1) : s[q] # x

Range(s) == {s[p] : p \in 1..Len(s)}

\* A weaker test than IsPermutation: every entry in range, repeats allowed.
InRange(s) == \A p \in 1..Len(s) : s[p] \in 0..(Len(s) - 1)

\* (np.arange(len(s)) != np.sort(s)).any() is False: s is a permutation of 0..len-1.
IsPermutation(s) ==
    /\ \A p \in 1..Len(s) : s[p] \in 0..(Len(s) - 1)
    /\ \A p, q \in 1..Len(s) : p # q => s[p] # s[q]

-----------------------------------------------------------------------------
(* Dense arrays *)

MkArr(n, k, F(_, _)) ==
    [n |-> n, k |-> k, at |-> [i \in 1..n |-> [j \in 1..k |-> F(i, j)]]]

Zeros(n, k) == MkArr(n, k, LAMBDA i, j : 0)

\* A[rows, :] and A[:, cols] for index arrays.
TakeRows(A, rows) == MkArr(Len(rows), A.k, LAMBDA i, j : A.at[rows[i] + 1][j])
TakeCols(A, cols) == MkArr(A.n, Len(cols), LAMBDA i, j : A.at[i][cols[j] + 1])

Transpose(A) == MkArr(A.k, A.n, LAMBDA i, j : A.at[j][i])

\* A @ B
MatMul(A, B) ==
    MkArr(A.n, B.k, LAMBDA i, j : Sum([r \in 1..A.k |-> A.at[i][r] * B.at[r][j]]))

ArrAdd(A, B) == MkArr(A.n, A.k, LAMBDA i, j : A.at[i][j] + B.at[i][j])

\* np.hstack of a non-empty sequence of arrays with n rows.
HStack(As) ==
    LET \* the columns of all arrays, left to right
        Columns(cols) ==
            [n |-> As[1].n, k |-> Len(cols),
             at |-> [i \in 1..As[1].n |-> [j \in 1..Len(cols) |-> cols[j][i]]]]
    IN  Columns(Flatten([p \in 1..Len(As) |->
                            [c \in 1..As[p].k |-> [i \in 1..As[p].n |-> As[p].at[i][c]]]]))

\* out[np.ix_(ri, ci)] = B: the entries of A at rows ri and columns ci replaced.
SetBlock(A, ri, ci, B) ==
    MkArr(A.n, A.k,
          LAMBDA i, j :
              IF (i - 1) \in Range(ri) /\ (j - 1) \in Range(ci)
              THEN B.at[PosOf(ri, i - 1)][PosOf(ci, j - 1)]
              ELSE A.at[i][j])

\* What is left of out when a diagonal-only result is dropped.
NoDiag(A, ix, data) == A

\* out[(ix, ix)] += data: data added on the diagonal positions ix.
AddDiag(A, ix, data) ==
    MkArr(A.n, A.k,
          LAMBDA i, j :
              IF i = j /\ (i - 1) \in Range(ix)
              THEN A.at[i][j] + data[PosOf(ix, i - 1)]
              ELSE A.at[i][j])

\* The same sum short of its last requested row.
ShortCross(L, M, d, rows, lc, rc) ==
    MkArr(Len(lc), Len(rc),
          LAMBDA a, b :
              Sum([r \in 1..(Len(rows) - 1) |->
                      L.at[rows[r] + 1][lc[a] + 1] * d[rows[r] + 1]
                          * M.at[rows[r] + 1][rc[b] + 1]]))

\* The reference the claims compare with: R.T @ diag(d[rows]) @ S for
\* R = L[rows][:, lc] and S = M[rows][:, rc], on dense forms.
RefCross(L, M, d, rows, lc, rc) ==
    MkArr(Len(lc), Len(rc),
          LAMBDA a, b :
              Sum([r \in 1..Len(rows) |->
                      L.at[rows[r] + 1][lc[a] + 1] * d[rows[r] + 1]
                          * M.at[rows[r] + 1][rc[b] + 1]]))

RefSandwich(A, d, rows, cols) == RefCross(A, A, d, rows, cols, cols)

-----------------------------------------------------------------------------
(* dtypes *)

DTypes == {"float32", "float64"}

\* np.result_type of two floating dtypes.
ResultType(a, b) == IF a = "float64" \/ b = "float64" THEN "float64" ELSE "float32"

-----------------------------------------------------------------------------
(* The concrete matrix formats.  The classes DenseMatrix and                *)
(* CategoricalMatrix are not among the source files: their records follow   *)
(* the data model (a 2-D buffer; one category per row, never expanded).     *)

\* DenseMatrix(A)
DenseMatrix(A, dtype) ==
    [kind |-> "dense", dtype |-> dtype, n |-> A.n, k |-> A.k, at |-> A.at]

\* CategoricalMatrix(cat) with ncat categories: row i belongs to category cat[i].
CategoricalMatrix(cat, ncat, dtype) ==
    [kind |-> "cat", dtype |-> dtype, n |-> Len(cat), k |-> ncat, cat |-> cat]

\* The compressed-column arrays scipy builds from a dense array: the stored
\* entries are the non-zero ones, column by column, rows ascending.
CscOf(A) ==
    LET \* rowsOf[j]: the rows (1-based) of the stored entries of column j
        Arrays(rowsOf) ==
            [indptr |-> [j \in 1..(A.k + 1) |->
                            SumTo([c \in 1..A.k |-> Len(rowsOf[c])], j - 1)],
             indices |-> Flatten([j \in 1..A.k |->
                            [q \in 1..Len(rowsOf[j]) |-> rowsOf[j][q] - 1]]),
             data |-> Flatten([j \in 1..A.k |->
                            [q \in 1..Len(rowsOf[j]) |-> A.at[rowsOf[j][q]][j]]])]
    IN  Arrays([j \in 1..A.k |-> Positions(A.n, {i \in 1..A.n : A.at[i][j] # 0})])

\* The compressed-row arrays of tocsr(): row by row, columns ascending.
CsrOf(A) ==
    LET \* colsOf[i]: the columns (1-based) of the stored entries of row i
        Arrays(colsOf) ==
            [n |-> A.n, k |-> A.k,
             indptr |-> [i \in 1..(A.n + 1) |->
                            SumTo([r \in 1..A.n |-> Len(colsOf[r])], i - 1)],
             indices |-> Flatten([i \in 1..A.n |->
                            [q \in 1..Len(colsOf[i]) |-> colsOf[i][q] - 1]]),
             data |-> Flatten([i \in 1..A.n |->
                            [q \in 1..Len(colsOf[i]) |-> A.at[i][colsOf[i][q]]]])]
    IN  Arrays([i \in 1..A.n |-> Positions(A.k, {j \in 1..A.k : A.at[i][j] # 0})])

\* The dense form of compressed-column arrays: entry (i, j) is the sum of the
\* stored entries of column j whose row index is i.
CscToArray(m) ==
    MkArr(m.n, m.k,
          LAMBDA i, j :
              Sum([q \in 1..Len(m.data) |->
                      IF m.indptr[j] < q /\ q <= m.indptr[j + 1]
                             /\ m.indices[q] = i - 1
                      THEN m.data[q] ELSE 0]))

\* The dense form of compressed-row arrays.
CsrToArray(m) ==
    MkArr(m.n, m.k,
          LAMBDA i, j :
              Sum([q \in 1..Len(m.data) |->
                      IF m.indptr[i] < q /\ q <= m.indptr[i + 1]
                             /\ m.indices[q] = j - 1
                      THEN m.data[q] ELSE 0]))

\* SparseMatrix.__init__ from a dense array or scipy matrix: the csc arrays,
\* indices sorted within each column, and no row-major view yet.
SparseMatrix(A, dtype) ==
    LET Wrap(c) ==
            [kind |-> "sparse", dtype |-> dtype, n |-> A.n, k |-> A.k,
             indptr |-> c.indptr, indices |-> c.indices, data |-> c.data,
             x_csr |-> None]
    IN  Wrap(CscOf(A))

\* SparseMatrix.x_csr: the cached row-major view, built when there is none.
XCsr(m) == IF IsNone(m.x_csr) THEN CsrOf(CscToArray(m)) ELSE Get(m.x_csr)

\* The matrix after an access to x_csr: the view is cached.
WithXCsr(m) == [m EXCEPT !.x_csr = Some(XCsr(m))]

\* CategoricalMatrix.toarray(): one-hot rows.
CatToArray(m) == MkArr(m.n, m.k, LAMBDA i, j : IF m.cat[i] = j - 1 THEN 1 ELSE 0)

\* mat.A of a concrete (non-split) sub-matrix.
LeafToArray(m) ==
    CASE m.kind = "dense" -> [n |-> m.n, k |-> m.k, at |-> m.at]
      [] m.kind = "sparse" -> CscToArray(m)
      [] m.kind = "cat" -> CatToArray(m)

IsMatrixBase(m) == m.kind \in {"dense", "sparse", "cat", "split"}

-----------------------------------------------------------------------------
(* Operands and outcomes *)

\* A vector or multi-column operand: ndim nd (1 or 2), n entries per column,
\* k columns (k = 1 when nd = 1).
MkVec(dtype, nd, A) == [dtype |-> dtype, nd |-> nd, n |-> A.n, k |-> A.k, at |-> A.at]

ArrOf(v) == [n |-> v.n, k |-> v.k, at |-> v.at]

\* v[idx, ...]
VecTake(v, idx) == MkVec(v.dtype, v.nd, TakeRows(ArrOf(v), idx))

\* out[idx, ...] += res
AddAtRows(out, idx, res) ==
    [out EXCEPT !.at =
        [i \in 1..out.n |->
            [j \in 1..out.k |->
                IF (i - 1) \in Range(idx)
                THEN out.at[i][j] + res.at[PosOf(idx, i - 1)][j]
                ELSE out.at[i][j]]]]

NoError == ""
Raise(e) == [err |-> e, ret |-> None]
Return(x) == [err |-> NoError, ret |-> Some(x)]

\* util.set_up_rows_or_cols(arr, length): every index when arr is None.
SetUpRowsOrCols(arr, length) == IF IsNone(arr) THEN Arange(length) ELSE Get(arr)

-----------------------------------------------------------------------------
(* SparseMatrix (sparse_matrix.py) *)

IsArm(mach) == mach \in {"arm64", "aarch64"}

\* dot_product_mkl(matrix_a, matrix_b, out): on arm np.dot writes the product
\* into out; sparse_dot_mkl adds the product to out.  X is the dense form of
\* matrix_a, b a one-column array, out <<>> or the buffer's array.
DotProductMkl(mach, X, b, out) ==
    IF IsNone(out) THEN MatMul(X, b)
    ELSE IF IsArm(mach) THEN MatMul(X, b)
    ELSE ArrAdd(Get(out), MatMul(X, b))

\* ext.sparse.csc_rmatvec(XT, v, rows, cols): for each requested column, in the
\* order of cols, the sum over the requested rows.
CscRMatvec(self, b, rows, cols) ==
    LET A == CscToArray(self)
    IN  MkArr(Len(cols), 1,
              LAMBDA c, j : Sum([r \in 1..Len(rows) |->
                                    A.at[rows[r] + 1][cols[c] + 1] * b.at[rows[r] + 1][1]]))

\* ext.sparse.csr_matvec(X, v, rows, cols): for each requested row, in the order
\* of rows, the sum over the requested columns.
CsrMatvec(xcsr, b, rows, cols) ==
    LET A == CsrToArray(xcsr)
    IN  MkArr(Len(rows), 1,
              LAMBDA r, j : Sum([c \in 1..Len(cols) |->
                                    A.at[rows[r] + 1][cols[c] + 1] * b.at[cols[c] + 1][1]]))

\* SparseMatrix.matvec_helper(vec, rows, cols, out, transpose).  The outcome is
\* [err, ret, out, csr]: the value returned, the out buffer after the call
\* (<<>> when none was given) and whether x_csr was read.
MatvecHelper(mach, self, vec, rows, cols, out, transpose) ==
    LET dt == IF IsNone(out) THEN ResultType(self.dtype, vec.dtype) ELSE Get(out).dtype
        Done(res, nd, buf, csr) ==
            [err |-> NoError, ret |-> Some(MkVec(dt, nd, res)), out |-> buf, csr |-> csr]
        \* the product of the vectorized kernel is what it returns and leaves in out
        Vectorized(res) ==
            Done(res, vec.nd,
                 IF IsNone(out) THEN None ELSE Some(MkVec(dt, Get(out).nd, res)), FALSE)
        Added(sum) == Done(sum, 2, Some(MkVec(dt, 2, sum)), FALSE)
        Unrestricted(X, b) ==
            IF vec.nd = 1 \/ (vec.nd = 2 /\ vec.k = 1)
            THEN Vectorized(DotProductMkl(mach, X, b,
                                IF IsNone(out) THEN None ELSE Some(ArrOf(Get(out)))))
            ELSE IF IsNone(out) THEN Done(MatMul(X, b), 2, None, FALSE)
            ELSE Added(ArrAdd(ArrOf(Get(out)), MatMul(X, b)))
        Placed(buf, csr) == Done(ArrOf(buf), vec.nd, Some(buf), csr)
        Finish(res, idx, csr) ==
            IF IsNone(out) THEN Done(res, vec.nd, None, csr)
            ELSE Placed(AddAtRows(Get(out), idx, res), csr)
        Restricted(A, b, rs, cs) ==
            IF vec.nd = 1 \/ (vec.nd = 2 /\ vec.k = 1)
            THEN IF transpose
                 THEN Finish(CscRMatvec(self, b, rs, cs), cs, FALSE)
                 ELSE Finish(CsrMatvec(XCsr(self), b, rs, cs), rs, TRUE)
            ELSE IF transpose
                 THEN Finish(MatMul(Transpose(TakeCols(TakeRows(A, rs), cs)),
                                    TakeRows(b, rs)), cs, FALSE)
                 ELSE Finish(MatMul(TakeCols(TakeRows(A, rs), cs), TakeRows(b, cs)),
                             rs, FALSE)
    IN  IF (IsNone(rows) \/ Len(Get(rows)) = self.n)
               /\ (IsNone(cols) \/ Len(Get(cols)) = self.k)
        THEN Unrestricted(IF transpose THEN Transpose(CscToArray(self))
                          ELSE CscToArray(self),
                          ArrOf(vec))
        ELSE Restricted(CscToArray(self), ArrOf(vec),
                        SetUpRowsOrCols(rows, self.n), SetUpRowsOrCols(cols, self.k))

\* SparseMatrix.matvec(vec, cols, out)
SparseMatvec(mach, self, vec, cols, out) ==
    MatvecHelper(mach, self, vec, None, cols, out, FALSE)

\* SparseMatrix.transpose_matvec(vec, rows, cols, out)
SparseTransposeMatvec(mach, self, vec, rows, cols, out) ==
    MatvecHelper(mach, self, vec, rows, cols, out, TRUE)

\* A sandwich result: a dense block (dia = FALSE, arr) or a scipy dia_matrix
\* holding only the diagonal (dia = TRUE, data).
DenseResult(A) == [err |-> NoError, dia |-> FALSE, arr |-> A, data |-> <<>>]
DiaResult(data) == [err |-> NoError, dia |-> TRUE, arr |-> Zeros(0, 0), data |-> data]
SandwichError(e) == [err |-> e, dia |-> FALSE, arr |-> Zeros(0, 0), data |-> <<>>]

\* ext.sparse.sparse_sandwich(A, AT, d, rows, cols): the left factor is read
\* from the column-major arrays, the right one from the row-major view.
SparseSandwichKernel(self, xcsr, d, rows, cols) ==
    RefCross(CscToArray(self), CsrToArray(xcsr), d, rows, cols, cols)

\* SparseMatrix.sandwich(d, rows, cols); d is [dtype, vec].
SparseSandwich(self, d, rows, cols) ==
    IF self.dtype # d.dtype THEN SandwichError("TypeError")
    ELSE DenseResult(SparseSandwichKernel(self, XCsr(self), d.vec,
                         SetUpRowsOrCols(rows, self.n), SetUpRowsOrCols(cols, self.k)))

\* The kernel with the two column restrictions taken for each other.
CsrDenseSwapped(xcsr, B, d, rows, lc, rc) ==
    RefCross(CsrToArray(xcsr), B, d, rows, rc, lc)

\* ext.sparse.csr_dense_sandwich(A, B, d, rows, A_cols, B_cols)
CsrDenseSandwich(xcsr, B, d, rows, lc, rc) ==
    RefCross(CsrToArray(xcsr), B, d, rows, lc, rc)

\* SparseMatrix.sandwich_dense(B, d, rows, L_cols, R_cols)
SandwichDense(self, B, d, rows, L_cols, R_cols) ==
    IF self.dtype # d.dtype \/ B.dtype # d.dtype THEN SandwichError("TypeError")
    ELSE DenseResult(CsrDenseSandwich(XCsr(self), LeafToArray(B), d.vec,
                         SetUpRowsOrCols(rows, self.n),
                         SetUpRowsOrCols(L_cols, self.k),
                         SetUpRowsOrCols(R_cols, B.k)))

\* CategoricalMatrix.cross_sandwich(other, d, rows, L_cols, R_cols) and
\* DenseMatrix.cross_sandwich: L.T @ diag(d) @ R on the restricted operands.
PeerCrossSandwich(self, other, d, rows, L_cols, R_cols) ==
    DenseResult(RefCross(LeafToArray(self), LeafToArray(other), d.vec,
                    SetUpRowsOrCols(rows, self.n),
                    SetUpRowsOrCols(L_cols, self.k),
                    SetUpRowsOrCols(R_cols, other.k)))

\* The dispatch with the column restrictions of a categorical peer not swapped.
CrossWithoutSwap(self, other, d, rows, L_cols, R_cols) ==
    LET Transposed(r) == IF r.err # NoError THEN r ELSE DenseResult(Transpose(r.arr))
    IN  IF other.kind = "dense" THEN SandwichDense(self, other, d, rows, L_cols, R_cols)
        ELSE IF other.kind = "cat"
        THEN Transposed(PeerCrossSandwich(other, self, d, rows, L_cols, R_cols))
        ELSE SandwichError("TypeError")

\* SparseMatrix.cross_sandwich(other, d, rows, L_cols, R_cols)
SparseCrossSandwich(self, other, d, rows, L_cols, R_cols) ==
    LET Transposed(r) == IF r.err # NoError THEN r ELSE DenseResult(Transpose(r.arr))
    IN  IF other.kind = "dense" THEN SandwichDense(self, other, d, rows, L_cols, R_cols)
        ELSE IF other.kind = "cat"
        THEN Transposed(PeerCrossSandwich(other, self, d, rows, R_cols, L_cols))
        ELSE SandwichError("TypeError")

-----------------------------------------------------------------------------
(* DenseMatrix and CategoricalMatrix operations, after the contract of       *)
(* MatrixBase: the products of the dense form, added to out when given.      *)

\* DenseMatrix.sandwich: a dense block.  CategoricalMatrix.sandwich: a
\* dia_matrix, entry c the sum of d over the requested rows of category cols[c].
PeerSandwich(self, d, rows, cols) ==
    LET Product(rs, cs) ==
            IF self.kind = "cat"
            THEN DiaResult([c \in 1..Len(cs) |->
                     Sum([r \in 1..Len(rs) |->
                             IF self.cat[rs[r] + 1] = cs[c] THEN d.vec[rs[r] + 1] ELSE 0])])
            ELSE DenseResult(RefSandwich(LeafToArray(self), d.vec, rs, cs))
    IN  Product(SetUpRowsOrCols(rows, self.n), SetUpRowsOrCols(cols, self.k))

\* matvec(vec, cols, out) of a dense or categorical matrix: A[:, cols] @ vec[cols]
\* added to out.  A categorical matrix takes 1-D vectors only.
PeerMatvec(self, vec, cols, out) ==
    LET Added(buf) == [err |-> NoError, ret |-> Some(buf), out |-> Some(buf), csr |-> FALSE]
        Finish(res) ==
            IF IsNone(out)
            THEN [err |-> NoError,
                  ret |-> Some(MkVec(ResultType(self.dtype, vec.dtype), vec.nd, res)),
                  out |-> None, csr |-> FALSE]
            ELSE Added([Get(out) EXCEPT !.at = ArrAdd(ArrOf(Get(out)), res).at])
    IN  IF self.kind = "cat" /\ vec.nd > 1
        THEN [err |-> "NotImplementedError", ret |-> None, out |-> out, csr |-> FALSE]
        ELSE Finish(MatMul(TakeCols(LeafToArray(self), SetUpRowsOrCols(cols, self.k)),
                           TakeRows(ArrOf(vec), SetUpRowsOrCols(cols, self.k))))

\* transpose_matvec(vec, rows, cols) of a dense or categorical matrix:
\* A[rows][:, cols].T @ vec[rows].
PeerTransposeMatvec(self, vec, rows, cols) ==
    [err |-> NoError,
     ret |-> Some(MkVec(ResultType(self.dtype, vec.dtype), vec.nd,
                 MatMul(Transpose(TakeCols(TakeRows(LeafToArray(self),
                                                    SetUpRowsOrCols(rows, self.n)),
                                           SetUpRowsOrCols(cols, self.k))),
                        TakeRows(ArrOf(vec), SetUpRowsOrCols(rows, self.n))))),
     out |-> None, csr |-> FALSE]

\* mat.sandwich(d, rows, cols) of a sub-matrix
LeafSandwich(mat, d, rows, cols) ==
    IF mat.kind = "sparse" THEN SparseSandwich(mat, d, rows, cols)
    ELSE PeerSandwich(mat, d, rows, cols)

\* mat_i.cross_sandwich(mat_j, d, rows, L_cols, R_cols)
LeafCrossSandwich(mat_i, mat_j, d, rows, L_cols, R_cols) ==
    IF mat_i.kind = "sparse" THEN SparseCrossSandwich(mat_i, mat_j, d, rows, L_cols, R_cols)
    ELSE PeerCrossSandwich(mat_i, mat_j, d, rows, L_cols, R_cols)

\* mat.matvec(one, sub_cols, out=out)
LeafMatvec(mach, mat, vec, cols, out) ==
    IF mat.kind = "sparse" THEN SparseMatvec(mach, mat, vec, cols, out)
    ELSE PeerMatvec(mat, vec, cols, out)

\* mat.transpose_matvec(v, rows=rows, cols=sub_cols)
LeafTransposeMatvec(mach, mat, vec, rows, cols) ==
    IF mat.kind = "sparse" THEN SparseTransposeMatvec(mach, mat, vec, rows, cols, None)
    ELSE PeerTransposeMatvec(mat, vec, rows, cols)

-----------------------------------------------------------------------------
(* SplitMatrix construction (split_matrix.py) *)

\* The positions (1-based, ascending) of the elements of matrices of one type.
ThisTypeMatrices(matrices, kind) ==
    Positions(Len(matrices), {p \in 1..Len(matrices) : matrices[p].kind = kind})

RECURSIVE CommonType(_)
CommonType(ms) ==
    IF Len(ms) = 1 THEN ms[1].dtype
    ELSE ResultType(ms[1].dtype, CommonType(Tail(ms)))

\* What a merge that kept only the first matrix of a type would build.
FirstOnly(kind, ms) == ms[1]

\* mat_type_(stack_fn([matrices[i] for i in this_type_matrices]))
Stack(kind, ms) ==
    LET A == HStack([p \in 1..Len(ms) |-> LeafToArray(ms[p])])
    IN  IF kind = "dense" THEN DenseMatrix(A, CommonType(ms))
        ELSE SparseMatrix(A, CommonType(ms))

\* One round of the loop of combine_matrices, for one matrix type.  st holds
\* the local lists m and i, the caller's two list objects am and ai, whether
\* the local names still denote the caller's objects, and the error raised.
CombineStep(st, kind) ==
    LET \* m1, i1: the two lists after the assignments to their first element
        Filter(this, m1, i1) ==
            IF \E q \in 1..Len(this) : this[q] > Len(st.i)
            THEN [st EXCEPT !.m = m1, !.am = IF st.aliasM THEN m1 ELSE st.am,
                            !.err = "IndexError"]
            ELSE [m |-> SelectPos(m1, 1, (1..Len(m1)) \ {this[q] : q \in 2..Len(this)}),
                  i |-> SelectPos(i1, 1, (1..Len(i1)) \ {this[q] : q \in 2..Len(this)}),
                  am |-> IF st.aliasM THEN m1 ELSE st.am,
                  ai |-> IF st.aliasI THEN i1 ELSE st.ai,
                  aliasM |-> FALSE, aliasI |-> FALSE, err |-> NoError]
        Merge(this) ==
            IF st.err # NoError \/ Len(this) <= 1 THEN st
            ELSE Filter(this,
                     [st.m EXCEPT ![this[1]] =
                         Stack(kind, [q \in 1..Len(this) |-> st.m[this[q]]])],
                     [st.i EXCEPT ![this[1]] =
                         Flatten([q \in 1..Len(this) |-> st.i[this[q]]])])
    IN  Merge(ThisTypeMatrices(st.m, kind))

\* combine_matrices(matrices, indices); owned tells whether indices is the
\* caller's list rather than one built by the constructor.
CombineMatrices(matrices, indices, owned) ==
    CombineStep(
        CombineStep([m |-> matrices, i |-> indices, am |-> matrices, ai |-> indices,
                     aliasM |-> TRUE, aliasI |-> owned, err |-> NoError],
                    "dense"),
        "sparse")

\* The index arrays the constructor builds when indices is None.
DefaultIndices(matrices) ==
    LET widths == [p \in 1..Len(matrices) |-> matrices[p].k]
    IN  [p \in 1..Len(matrices) |->
            [c \in 1..widths[p] |-> SumTo(widths, p - 1) + c - 1]]

\* The outcome of a failed constructor call.
InitError(e, am, ai) == [err |-> e, obj |-> None, am |-> am, ai |-> ai]

\* What a constructor that read the dtype off the combined matrices would store.
CombinedDtype(matrices, combined) == combined[1].dtype

\* self.dtype = matrices[0].dtype, read before combine_matrices runs.
FirstDtype(matrices, combined) == matrices[1].dtype

\* SplitMatrix.__init__(matrices, indices): the error raised or the object
\* built, and the caller's two lists after the call.  indices is <<>> (None)
\* or <<list>>.
SplitMatrixInit(matrices, indices) ==
    LET \* cm: what combine_matrices leaves; n_col: the number of indices
        Finish(cm, n_col) ==
            IF cm.err # NoError
            THEN InitError(cm.err, cm.am, IF IsNone(indices) THEN None ELSE Some(cm.ai))
            ELSE IF n_col = 0
            THEN InitError("AssertionError", cm.am,
                           IF IsNone(indices) THEN None ELSE Some(cm.ai))
            ELSE [err |-> NoError,
                  obj |-> Some([kind |-> "split", dtype |-> FirstDtype(matrices, cm.m),
                                n |-> matrices[1].n, k |-> n_col,
                                matrices |-> cm.m, indices |-> cm.i]),
                  am |-> cm.am,
                  ai |-> IF IsNone(indices) THEN None ELSE Some(cm.ai)]
        \* idx: the index list given or built
        Check(idx) ==
            IF ~IsNone(indices) /\ (Len(idx) = 0 \/ ~IsPermutation(Flatten(idx)))
            THEN InitError("ValueError", matrices, indices)
            ELSE IF \E p \in 1..Min(Len(matrices), Len(idx)) :
                       matrices[p].k # Len(idx[p])
            THEN InitError("ValueError", matrices, indices)
            ELSE Finish(CombineMatrices(matrices, idx, ~IsNone(indices)),
                        Len(Flatten(idx)))
    IN  IF \E p \in 1..Len(matrices) :
               ~IsMatrixBase(matrices[p]) \/ matrices[p].kind = "split"
        THEN InitError("ValueError", matrices, indices)
        ELSE IF \E p \in 1..Len(matrices) : matrices[p].n # matrices[1].n
        THEN InitError("ValueError", matrices, indices)
        ELSE Check(IF IsNone(indices) THEN DefaultIndices(matrices) ELSE Get(indices))

\* The sub-matrices' dense forms side by side, whatever the index arrays say.
StackedToArray(self, junk) ==
    HStack([p \in 1..Len(self.matrices) |-> LeafToArray(self.matrices[p])])

\* SplitMatrix.toarray(): np.empty filled sub-matrix by sub-matrix; an entry
\* no sub-matrix writes keeps whatever the fresh buffer held (junk).
SplitToArray(self, junk) ==
    MkArr(self.n, self.k,
          LAMBDA i, j :
              LET hits == {p \in 1..Min(Len(self.matrices), Len(self.indices)) :
                              (j - 1) \in Range(self.indices[p])}
                  \* the last sub-matrix that writes column j wins
                  p == CHOOSE q \in hits : \A r \in hits : r <= q
              IN  IF hits = {} THEN junk
                  ELSE LeafToArray(self.matrices[p]).at[i][PosOf(self.indices[p], j - 1)])

-----------------------------------------------------------------------------
(* SplitMatrix products (split_matrix.py) *)

\* ext.split.split_col_subsets(self, cols), by its contract
\*   self.indices[i][subset_cols[i]] == cols[subset_cols_indices[i]]:
\* for sub-matrix i the places in cols of the columns it owns, ascending, and
\* the local numbers of those columns.
SplitColSubsetsKernel(self, cols) ==
    LET \* place[i]: the places (1-based) in cols of the columns of sub-matrix i
        Subsets(place) ==
            [sci |-> [i \in 1..Len(self.indices) |->
                         [q \in 1..Len(place[i]) |-> place[i][q] - 1]],
             sc |-> [i \in 1..Len(self.indices) |->
                         Some([q \in 1..Len(place[i]) |->
                                  PosOf(self.indices[i], cols[place[i][q]]) - 1])],
             n_cols |-> Len(cols)]
    IN  Subsets([i \in 1..Len(self.indices) |->
                    Positions(Len(cols), {q \in 1..Len(cols) :
                                             cols[q] \in Range(self.indices[i])})])

\* SplitMatrix._split_col_subsets(cols)
SplitColSubsets(self, cols) ==
    IF IsNone(cols)
    THEN [sci |-> self.indices,
          sc |-> [i \in 1..Len(self.indices) |-> None],
          n_cols |-> self.k]
    ELSE SplitColSubsetsKernel(self, SetUpRowsOrCols(cols, self.k))

\* The inner loop of SplitMatrix.sandwich: the blocks of sub-matrix i with the
\* sub-matrices j, j + 1, ...; st is [err, out].
RECURSIVE CrossLoop(_, _, _, _, _, _, _)
CrossLoop(self, d, rows, s, i, j, st) ==
    LET Blocks(res) ==
            IF res.err # NoError THEN [st EXCEPT !.err = res.err]
            ELSE CrossLoop(self, d, rows, s, i, j + 1,
                     [st EXCEPT !.out =
                         SetBlock(SetBlock(st.out, s.sci[i], s.sci[j], res.arr),
                                  s.sci[j], s.sci[i], Transpose(res.arr))])
    IN  IF st.err # NoError \/ j > Len(self.indices) THEN st
        ELSE IF j > Len(self.matrices) THEN [st EXCEPT !.err = "IndexError"]
        ELSE Blocks(LeafCrossSandwich(self.matrices[i], self.matrices[j], d, rows,
                                      s.sc[i], s.sc[j]))

\* The outer loop of SplitMatrix.sandwich, from sub-matrix i on.
RECURSIVE SandwichLoop(_, _, _, _, _, _)
SandwichLoop(self, d, rows, s, i, st) ==
    LET Block(res) ==
            IF res.err # NoError THEN [st EXCEPT !.err = res.err]
            ELSE SandwichLoop(self, d, rows, s, i + 1,
                     CrossLoop(self, d, rows, s, i, i + 1,
                         [st EXCEPT !.out =
                             IF res.dia THEN AddDiag(st.out, s.sci[i], res.data)
                             ELSE SetBlock(st.out, s.sci[i], s.sci[i], res.arr)]))
    IN  IF st.err # NoError \/ i > Len(self.indices) THEN st
        ELSE IF i > Len(self.matrices) THEN [st EXCEPT !.err = "IndexError"]
        ELSE Block(LeafSandwich(self.matrices[i], d, rows, s.sc[i]))

\* A d that is merely not too short.
TooShort(d, n) == Len(d.vec) < n

\* np.shape(d) != (self.shape[0],): d is 1-D unless it carries a shape.
Misshapen(d, n) ==
    (IF "shape" \in DOMAIN d THEN d.shape ELSE <<Len(d.vec)>>) # <<n>>

\* SplitMatrix.sandwich(d, rows, cols)
SplitSandwich(self, d, rows, cols) ==
    LET Result(r) == IF r.err # NoError THEN Raise(r.err) ELSE Return(r.out)
        Fill(s) ==
            Result(SandwichLoop(self, d, rows, s, 1,
                       [err |-> NoError, out |-> Zeros(s.n_cols, s.n_cols)]))
    IN  IF Misshapen(d, self.n) THEN Raise("ValueError")
        ELSE Fill(SplitColSubsets(self, cols))

\* _prepare_out_array(out, out_shape, out_dtype), out_shape as an array of zeros
PrepareOutArray(out, zeros, nd, out_dtype) ==
    IF IsNone(out) THEN Return(MkVec(out_dtype, nd, zeros))
    ELSE IF Get(out).dtype # out_dtype THEN Raise("ValueError")
    ELSE Return(Get(out))

\* What a call with an out argument hands back: [err, ret, out], out the
\* caller's buffer as the call leaves it (<<>> when none was given).
Outcome(out, r) ==
    [err |-> r.err,
     ret |-> IF r.err # NoError THEN None ELSE Some(r.out),
     out |-> IF IsNone(out) THEN None ELSE Some(r.out)]

\* The loop of SplitMatrix.matvec from sub-matrix p on; st is [err, out].
RECURSIVE MatvecLoop(_, _, _, _, _, _)
MatvecLoop(mach, self, v, s, p, st) ==
    LET Step(r) ==
            IF r.err # NoError THEN [st EXCEPT !.err = r.err]
            ELSE MatvecLoop(mach, self, v, s, p + 1, [st EXCEPT !.out = Get(r.out)])
    IN  IF st.err # NoError
               \/ p > Min(Len(s.sc), Min(Len(self.indices), Len(self.matrices)))
        THEN st
        ELSE Step(LeafMatvec(mach, self.matrices[p], VecTake(v, self.indices[p]),
                             s.sc[p], Some(st.out)))

\* SplitMatrix.matvec(v, cols, out)
SplitMatvec(mach, self, v, cols, out) ==
    LET Run(buf) ==
            IF buf.err # NoError THEN [err |-> buf.err, ret |-> None, out |-> out]
            ELSE Outcome(out, MatvecLoop(mach, self, v, SplitColSubsets(self, cols), 1,
                                         [err |-> NoError, out |-> Get(buf.ret)]))
    IN  IF v.n # self.k THEN [err |-> "ValueError", ret |-> None, out |-> out]
        ELSE Run(PrepareOutArray(out, Zeros(self.n, v.k), v.nd,
                                 ResultType(self.dtype, v.dtype)))

\* The loop of SplitMatrix.transpose_matvec from sub-matrix p on; direct tells
\* whether the results go to out[idx] rather than out[cols[idx]].
RECURSIVE TransposeMatvecLoop(_, _, _, _, _, _, _, _, _)
TransposeMatvecLoop(mach, self, v, rows, cols, s, direct, p, st) ==
    LET Step(r) ==
            IF r.err # NoError THEN [st EXCEPT !.err = r.err]
            ELSE TransposeMatvecLoop(mach, self, v, rows, cols, s, direct, p + 1,
                     [st EXCEPT !.out =
                         AddAtRows(st.out,
                                   IF direct THEN s.sci[p]
                                   ELSE [q \in 1..Len(s.sci[p]) |->
                                            Get(cols)[s.sci[p][q] + 1]],
                                   Get(r.ret))])
    IN  IF st.err # NoError
               \/ p > Min(Len(s.sci), Min(Len(s.sc), Len(self.matrices)))
        THEN st
        ELSE Step(LeafTransposeMatvec(mach, self.matrices[p], v, rows, s.sc[p]))

\* SplitMatrix.transpose_matvec(v, rows, cols, out)
SplitTransposeMatvec(mach, self, v, rows, cols, out) ==
    LET Run(s, buf) ==
            IF buf.err # NoError THEN [err |-> buf.err, ret |-> None, out |-> out]
            ELSE Outcome(out, TransposeMatvecLoop(mach, self, v, rows, cols, s,
                                  IsNone(out) \/ IsNone(cols), 1,
                                  [err |-> NoError, out |-> Get(buf.ret)]))
        Prepare(s) ==
            Run(s, PrepareOutArray(out, Zeros(s.n_cols, v.k), v.nd,
                                   ResultType(self.dtype, v.dtype)))
    IN  Prepare(SplitColSubsets(self, cols))

-----------------------------------------------------------------------------
(* The matrices and index lists the calls are made with *)

Kinds == {"dense", "sparse", "cat"}

\* The entries the columns are filled with: column p holds Table[p] (cyclically).
Table == << <<2, 0, -1>>, <<0, 1, 3>>, <<-1, 2, 0>>, <<1, -2, 2>>, <<3, 1, 0>> >>
Base(i, p) == Table[((p - 1) % Len(Table)) + 1][((i - 1) % Len(Table[1])) + 1]

\* The matrix of one kind at list position p: one column of Table for a dense
\* or sparse matrix, two categories for a categorical one.
Leaf(kind, p, n, dtype) ==
    CASE kind = "dense" -> DenseMatrix(MkArr(n, 1, LAMBDA i, j : Base(i, p)), dtype)
      [] kind = "sparse" -> SparseMatrix(MkArr(n, 1, LAMBDA i, j : Base(i, p)), dtype)
      [] kind = "cat" -> CategoricalMatrix([i \in 1..n |-> (i + p) % 2], 2, dtype)

\* The lists of kinds of 1..MaxMats matrices.
KindLists == UNION {[1..len -> Kinds] : len \in 1..MaxMats}

\* How dtypes are dealt: all float64, or the first matrix float32.
DTypePlans == {"all64", "first32"}
PlanType(plan, p) == IF plan = "first32" /\ p = 1 THEN "float32" ELSE "float64"

Leaves(ks, plan) == [p \in 1..Len(ks) |-> Leaf(ks[p], p, NRows, PlanType(plan, p))]

Widths(ms) == [p \in 1..Len(ms) |-> ms[p].k]

\* Three orders of 0..n-1: ascending, descending and rotated by one.
Perm(n, t) ==
    [q \in 1..n |-> CASE t = 1 -> q - 1
                      [] t = 2 -> n - q
                      [] t = 3 -> q % n]

\* flat cut into consecutive arrays of the given widths.
Chunk(flat, widths) ==
    [p \in 1..Len(widths) |-> [c \in 1..widths[p] |-> flat[SumTo(widths, p - 1) + c]]]

\* The index lists that partition the columns of matrices of the given widths.
Partitions(widths) == {Chunk(Perm(Sum(widths), t), widths) : t \in 1..3}

\* Well-formed constructor arguments.
ValidInputs ==
    UNION {{[m |-> Leaves(ks, plan), i |-> ix] :
               plan \in DTypePlans,
               ix \in {None} \cup {Some(x) : x \in Partitions(Widths(Leaves(ks, "all64")))}} :
           ks \in KindLists}

\* Something that is no MatrixBase, a SplitMatrix, and a matrix with one row
\* more than the others.
NotAMatrix == [kind |-> "object"]
Nested ==
    [kind |-> "split", dtype |-> "float64", n |-> NRows, k |-> 1,
     matrices |-> <<Leaf("dense", 1, NRows, "float64")>>, indices |-> << <<0>> >>]
Tall(kind, p) == Leaf(kind, p, NRows + 1, "float64")

\* Arguments with one bad element in matrices.
BadElementInputs ==
    UNION {{[m |-> [Leaves(ks, "all64") EXCEPT ![p] = bad], i |-> None] :
               p \in 1..Len(ks),
               bad \in {NotAMatrix, Nested, Tall("dense", 1), Tall("cat", 1)}} :
           ks \in KindLists}

\* Index lists that are no partition for matrices of the given widths: a
\* duplicate, an index out of range, and an array one too long with its
\* neighbour one too short.
BadPartitions(widths) ==
    LET n == Sum(widths)
        moved == [p \in 1..Len(widths) |->
                     CASE p = 1 -> widths[p] + 1
                       [] p = 2 -> widths[p] - 1
                       [] OTHER -> widths[p]]
    IN  {Chunk([Perm(n, t) EXCEPT ![1] = Perm(n, t)[n]], widths) : t \in 1..3}
          \cup {Chunk([Perm(n, t) EXCEPT ![n] = n], widths) : t \in 1..3}
          \cup (IF Len(widths) > 1
                THEN {Chunk(Perm(n, t), moved) : t \in 1..3} ELSE {})

BadIndexInputs ==
    UNION {{[m |-> Leaves(ks, "all64"), i |-> Some(x)] :
               x \in BadPartitions(Widths(Leaves(ks, "all64")))} :
           ks \in KindLists}

\* Arguments whose two lists differ in length by one, the index list a
\* partition of the columns it names.
UnevenInputs ==
    LET Front(q) == SubSeq(q, 1, Len(q) - 1)
        long == {ks \in KindLists : Len(ks) > 1}
    IN  UNION {{[m |-> Leaves(ks, "all64"), i |-> Some(x)] :
                   x \in Partitions(Widths(Leaves(Front(ks), "all64")))}
                 \cup {[m |-> Leaves(Front(ks), "all64"), i |-> Some(x)] :
                         x \in Partitions(Widths(Leaves(ks, "all64")))} :
               ks \in long}

AllInputs == ValidInputs \cup BadElementInputs \cup BadIndexInputs \cup UnevenInputs

-----------------------------------------------------------------------------
(* The state machine: one object is built, then calls are made on it *)

Machines == {"x86_64", "arm64"}

Init ==
    /\ machine \in Machines
    /\ inM = <<>>
    /\ inI = None
    /\ argM = <<>>
    /\ argI = None
    /\ obj = None
    /\ last = [op |-> "none", err |-> NoError]
    /\ threads = <<>>
    /\ displaced = {}

\* obj = SplitMatrix(matrices, indices) with the arguments a of a pool
Construct(pool) ==
    /\ last.op = "none"
    /\ \E a \in pool :
          \E r \in {SplitMatrixInit(a.m, a.i)} :
              /\ inM' = a.m
              /\ inI' = a.i
              /\ argM' = r.am
              /\ argI' = r.ai
              /\ obj' = r.obj
              /\ last' = [op |-> "init", err |-> r.err]
    /\ UNCHANGED <<machine, threads, displaced>>

\* SplitMatrix(matrices, indices) with any arguments
SplitInit == Construct(AllInputs)

IsSplit == ~IsNone(obj) /\ Get(obj).kind = "split"

\* obj.toarray() on a SplitMatrix
ToArray ==
    /\ IsSplit
    /\ \E junk \in {0, 9} :
          last' = [op |-> "toarray", err |-> NoError,
                   ret |-> Some(SplitToArray(Get(obj), junk))]
    /\ UNCHANGED <<machine, inM, inI, argM, argI, obj, threads, displaced>>

NextInit == SplitInit \/ ToArray

SpecInit == Init /\ [][NextInit]_vars

-----------------------------------------------------------------------------
(* Products of a SplitMatrix: the calls *)

\* The weights d of a sandwich: 2, 3, ... in either dtype.
Weights == {[dtype |-> t, vec |-> [i \in 1..NRows |-> i + 1]] : t \in DTypes}

\* rows: None, the last row alone, and all rows in descending order.
RowChoices == {None, Some(<<NRows - 1>>), Some(Perm(NRows, 2))}

\* cols for k columns: None, the first column, all columns in descending
\* order, and the last column followed by the first.
ColChoices(k) ==
    {None, Some(<<0>>), Some(Perm(k, 2))}
        \cup (IF k > 1 THEN {Some(<<k - 1, 0>>)} ELSE {})

\* The operand of a product with n entries per column: 1-D in either dtype,
\* one column and two columns.
Entries(n, k) == MkArr(n, k, LAMBDA i, j : i + 2 * j - 2)
VecChoices(n) ==
    {MkVec(t, 1, Entries(n, 1)) : t \in DTypes}
        \cup {MkVec("float64", 2, Entries(n, k)) : k \in 1..2}

\* SplitMatrix(matrices, indices) with well-formed arguments
SplitInitValid == Construct(ValidInputs)

\* A product is called on the object as the constructor left it.  The products
\* change nothing of it but the cached row-major view of a sparse sub-matrix,
\* which holds the entries of the matrix either way, so a later call would
\* compute what a first call computes; one call per behaviour reaches every
\* pair of an object and a call.
Fresh == IsSplit /\ last.op = "init"

\* obj.sandwich(d, rows, cols) on a SplitMatrix
Sandwich ==
    /\ Fresh
    /\ \E d \in Weights, rows \in RowChoices, cols \in ColChoices(Get(obj).k) :
          \E r \in {SplitSandwich(Get(obj), d, rows, cols)} :
              last' = [op |-> "sandwich", d |-> d, rows |-> rows, cols |-> cols,
                       err |-> r.err, ret |-> r.ret]
    /\ UNCHANGED <<machine, inM, inI, argM, argI, obj, threads, displaced>>

NextSandwich == SplitInitValid \/ Sandwich

SpecSandwich == Init /\ [][NextSandwich]_vars

\* obj.matvec(v, cols) on a SplitMatrix, out omitted
Matvec ==
    /\ Fresh
    /\ \E v \in VecChoices(Get(obj).k), cols \in ColChoices(Get(obj).k) :
          \E r \in {SplitMatvec(machine, Get(obj), v, cols, None)} :
              last' = [op |-> "matvec", v |-> v, rows |-> None, cols |-> cols,
                       err |-> r.err, ret |-> r.ret]
    /\ UNCHANGED <<machine, inM, inI, argM, argI, obj, threads, displaced>>

\* obj.transpose_matvec(v, rows, cols) on a SplitMatrix, out omitted
TransposeMatvec ==
    /\ Fresh
    /\ \E v \in VecChoices(NRows), rows \in RowChoices, cols \in ColChoices(Get(obj).k) :
          \E r \in {SplitTransposeMatvec(machine, Get(obj), v, rows, cols, None)} :
              last' = [op |-> "transpose_matvec", v |-> v, rows |-> rows, cols |-> cols,
                       err |-> r.err, ret |-> r.ret]
    /\ UNCHANGED <<machine, inM, inI, argM, argI, obj, threads, displaced>>

NextMatvec == SplitInitValid \/ Matvec \/ TransposeMatvec

SpecMatvec == Init /\ [][NextMatvec]_vars

-----------------------------------------------------------------------------
(* Construction and toarray: the claims *)

\* Both lists were given with one index array per matrix, or indices was None.
PairedInputs == IsNone(inI) \/ Len(Get(inI)) = Len(inM)

\* The index arrays the inputs carry: the ones given, or contiguous ones.
InputIndices == IF IsNone(inI) THEN DefaultIndices(inM) ELSE Get(inI)

HasNonMatrix == \E p \in 1..Len(inM) : inM[p].kind \notin (Kinds \cup {"split"})
HasNested == \E p \in 1..Len(inM) : inM[p].kind = "split"
RowsDiffer == \E p, q \in 1..Len(inM) : inM[p].n # inM[q].n
NotAPermutation ==
    /\ ~IsNone(inI)
    /\ \E x \in 0..(Len(Flatten(Get(inI))) - 1) :
          Cardinality({p \in 1..Len(Flatten(Get(inI))) : Flatten(Get(inI))[p] = x}) # 1
WrongLength ==
    /\ ~IsNone(inI)
    /\ \E p \in 1..Min(Len(inM), Len(Get(inI))) : Len(Get(inI)[p]) # inM[p].k

\* C2: every successfully constructed SplitMatrix has exactly one index array
\* per sub-matrix, each as long as its sub-matrix has columns; all sub-matrices
\* have n_rows rows; none is a SplitMatrix; and the index arrays together hold
\* each of 0..n_cols-1 exactly once, n_cols = shape[1] being the total column
\* count of the sub-matrices.
C2_ConstructedInvariants ==
    IsSplit =>
        LET o == Get(obj)
        IN  /\ Len(o.indices) = Len(o.matrices)
            /\ \A p \in 1..Min(Len(o.indices), Len(o.matrices)) :
                  Len(o.indices[p]) = o.matrices[p].k
            /\ \A p \in 1..Len(o.matrices) :
                  o.matrices[p].n = o.n /\ o.matrices[p].kind # "split"
            /\ o.k = Sum(Widths(o.matrices))
            /\ \A x \in 0..(o.k - 1) :
                  Cardinality({p \in 1..Len(Flatten(o.indices)) :
                                  Flatten(o.indices)[p] = x}) = 1

\* C3: construction raises ValueError and yields no object whenever an element
\* of matrices is no MatrixBase, an element is a SplitMatrix, the row counts
\* differ, the concatenated index arrays are no permutation of 0..n-1 (n their
\* total length), or an index array's length differs from the column count of
\* its matrix.
C3_InvalidArgumentsRaise ==
    (HasNonMatrix \/ HasNested
        \/ (~HasNonMatrix /\ (RowsDiffer \/ NotAPermutation \/ WrongLength)))
    => IsNone(obj) /\ last.op = "init" /\ last.err = "ValueError"

\* An index list that is a permutation, cut at the wrong places, was refused.
C3_Witness ==
    /\ last.op = "init" /\ last.err = "ValueError" /\ IsNone(obj)
    /\ ~HasNonMatrix /\ ~RowsDiffer /\ ~NotAPermutation /\ WrongLength

\* The list positions a constructed object keeps: every categorical input and
\* the first input of each other kind.
KeptPositions ==
    Positions(Len(inM),
              {p \in 1..Len(inM) :
                  inM[p].kind = "cat" \/ \A q \in 1..(p - 1) : inM[q].kind # inM[p].kind})

\* The inputs merged into the one at position p: p alone for a categorical
\* input, else every input of p's kind, in list order.
MergedInto(p) ==
    IF inM[p].kind = "cat" THEN <<p>>
    ELSE Positions(Len(inM), {q \in 1..Len(inM) : inM[q].kind = inM[p].kind})

\* C4: a constructed SplitMatrix holds at most one DenseMatrix and at most one
\* SparseMatrix; the inputs of such a type are column-stacked into one matrix
\* at the place of the first of them, whose index array is the concatenation
\* of theirs in list order; categorical inputs stay as they are, and the
\* remaining entries keep their order, matrices and indices aligned.
C4_MergedByType ==
    (IsSplit /\ PairedInputs) =>
        LET o == Get(obj)
        IN  /\ Len(o.matrices) = Len(KeptPositions)
            /\ Len(o.indices) = Len(KeptPositions)
            /\ \A kind \in {"dense", "sparse"} :
                  Cardinality({t \in 1..Len(o.matrices) : o.matrices[t].kind = kind}) <= 1
            /\ \A t \in 1..Len(KeptPositions) :
                  LET g == MergedInto(KeptPositions[t])
                  IN  /\ o.matrices[t].kind = inM[KeptPositions[t]].kind
                      /\ o.matrices[t].kind = "cat" => o.matrices[t] = inM[KeptPositions[t]]
                      /\ LeafToArray(o.matrices[t])
                            = HStack([q \in 1..Len(g) |-> LeafToArray(inM[g[q]])])
                      /\ o.indices[t] = Flatten([q \in 1..Len(g) |-> InputIndices[g[q]]])

\* Two sparse inputs around another one were merged at the first one's place.
C4_Witness ==
    /\ IsSplit /\ ~IsNone(inI) /\ Len(Get(inI)) = Len(inM)
    /\ Len(inM) > 2
    /\ inM[1].kind = "sparse" /\ inM[2].kind # "sparse" /\ inM[Len(inM)].kind = "sparse"
    /\ Get(obj).matrices[1].kind = "sparse"
    /\ Get(obj).matrices[1].k > 1

\* C5: toarray() holds local column k of input m at global column
\* indices_m[k], merged or not; with indices omitted the inputs' dense forms
\* stand side by side in input order.
C5_ToArrayPlacement ==
    (last.op = "toarray" /\ PairedInputs) =>
        LET A == Get(last.ret)
        IN  /\ A.n = inM[1].n
            /\ A.k = Sum(Widths(inM))
            /\ ~IsNone(inI) =>
                  \A m \in 1..Len(inM) : \A c \in 1..inM[m].k : \A i \in 1..A.n :
                      A.at[i][Get(inI)[m][c] + 1] = LeafToArray(inM[m]).at[i][c]
            /\ IsNone(inI) =>
                  A = HStack([m \in 1..Len(inM) |-> LeafToArray(inM[m])])

\* toarray() of an object whose inputs were merged under a descending index list.
C5_Witness ==
    /\ last.op = "toarray" /\ ~IsNone(inI) /\ Len(Get(inI)) = Len(inM)
    /\ Len(Get(obj).matrices) < Len(inM)
    /\ Get(inI)[1][1] > 0

-----------------------------------------------------------------------------
(* Products of a SplitMatrix: the claims *)

\* toarray() of the object under test
ObjArray == SplitToArray(Get(obj), 0)

\* The indices a restriction asks for: all n when it is None.
Requested(restriction, n) == IF IsNone(restriction) THEN Arange(n) ELSE Get(restriction)

\* A[rows][:, cols].T @ diag(d[rows]) @ A[rows][:, cols] for the last call
SandwichReference ==
    RefSandwich(ObjArray, last.d.vec,
                Requested(last.rows, Get(obj).n), Requested(last.cols, Get(obj).k))

\* C1 (as amended): for every SplitMatrix over a valid partition, every d of
\* length n_rows whose dtype is the dtype of every sub-matrix, and every rows
\* and cols, sandwich(d, rows, cols) returns
\* A[rows][:, cols].T @ diag(d[rows]) @ A[rows][:, cols] with A = toarray().
C1_SandwichMatchesDense ==
    (last.op = "sandwich"
        /\ \A p \in 1..Len(Get(obj).matrices) : Get(obj).matrices[p].dtype = last.d.dtype)
    => last.err = NoError /\ Get(last.ret) = SandwichReference

\* C1 (as stated): the same for every weight vector d of length n_rows.
C1_SandwichEveryWeight ==
    last.op = "sandwich" => last.err = NoError /\ Get(last.ret) = SandwichReference

\* A sandwich over a dense, a sparse and a categorical sub-matrix under a
\* permuted index list, with rows and cols both given in descending order.
C1_Witness ==
    /\ last.op = "sandwich" /\ last.err = NoError
    /\ {Get(obj).matrices[p].kind : p \in 1..Len(Get(obj).matrices)} = Kinds
    /\ ~IsNone(inI) /\ Get(inI)[1][1] > 0
    /\ last.rows = Some(Perm(NRows, 2))
    /\ last.cols = Some(Perm(Get(obj).k, 2))
    /\ \A p \in 1..Len(Get(obj).matrices) : Get(obj).matrices[p].dtype = last.d.dtype

\* The operand of the last product has the dtype of every sub-matrix.
OperandTypeShared ==
    \A p \in 1..Len(Get(obj).matrices) : Get(obj).matrices[p].dtype = last.v.dtype

\* C6: matvec(v, cols) with out omitted returns toarray()[:, cols] @ v[cols],
\* its dtype the common type of the matrix dtype and v's dtype (stated here
\* for 1-D v of the sub-matrices' dtype).
C6_MatvecMatchesDense ==
    (last.op = "matvec" /\ last.v.nd = 1 /\ OperandTypeShared) =>
        /\ last.err = NoError
        /\ ArrOf(Get(last.ret))
              = MatMul(TakeCols(ObjArray, Requested(last.cols, Get(obj).k)),
                       TakeRows(ArrOf(last.v), Requested(last.cols, Get(obj).k)))
        /\ Get(last.ret).dtype = ResultType(Get(obj).dtype, last.v.dtype)

\* C7: transpose_matvec(v, rows, cols) with out omitted returns
\* toarray()[rows][:, cols].T @ v[rows], one entry per requested column in the
\* order of cols (stated here for v of the sub-matrices' dtype).
C7_TransposeMatvecMatchesDense ==
    (last.op = "transpose_matvec" /\ OperandTypeShared) =>
        /\ last.err = NoError
        /\ ArrOf(Get(last.ret))
              = MatMul(Transpose(TakeCols(TakeRows(ObjArray,
                                                   Requested(last.rows, Get(obj).n)),
                                          Requested(last.cols, Get(obj).k))),
                       TakeRows(ArrOf(last.v), Requested(last.rows, Get(obj).n)))

-----------------------------------------------------------------------------
(* A SparseMatrix on its own: the calls *)

\* The sparse matrices the calls are made on: 1..MaxMats columns of Table,
\* starting at its first or its second column, in either dtype.
SparseInputs ==
    {SparseMatrix(MkArr(NRows, w, LAMBDA i, j : Base(i, j + off)), t) :
        w \in 1..MaxMats, off \in 0..1, t \in DTypes}

\* obj = SparseMatrix(arg1)
SparseInit ==
    /\ last.op = "none"
    /\ \E m \in SparseInputs : obj' = Some(m)
    /\ last' = [op |-> "init", err |-> NoError]
    /\ UNCHANGED <<machine, inM, inI, argM, argI, threads, displaced>>

IsSparse == ~IsNone(obj) /\ Get(obj).kind = "sparse"

\* Calls follow the constructor or a matvec, which may have left the cached
\* row-major view behind.
SparseReady == IsSparse /\ last.op \in {"init", "matvec"}

\* obj.matvec(v, cols) on a SparseMatrix, out omitted
SparseMatvecCall ==
    /\ SparseReady
    /\ \E v \in VecChoices(Get(obj).k), cols \in ColChoices(Get(obj).k) :
          \E r \in {SparseMatvec(machine, Get(obj), v, cols, None)} :
              /\ obj' = Some(IF r.csr THEN WithXCsr(Get(obj)) ELSE Get(obj))
              /\ last' = [op |-> "matvec", v |-> v, rows |-> None, cols |-> cols,
                          err |-> r.err, ret |-> r.ret]
    /\ UNCHANGED <<machine, inM, inI, argM, argI, threads, displaced>>

\* obj.transpose_matvec(v, rows, cols) on a SparseMatrix, out omitted
SparseTransposeMatvecCall ==
    /\ SparseReady
    /\ \E v \in VecChoices(NRows), rows \in RowChoices, cols \in ColChoices(Get(obj).k) :
          \E r \in {SparseTransposeMatvec(machine, Get(obj), v, rows, cols, None)} :
              /\ obj' = Some(IF r.csr THEN WithXCsr(Get(obj)) ELSE Get(obj))
              /\ last' = [op |-> "transpose_matvec", v |-> v, rows |-> rows,
                          cols |-> cols, err |-> r.err, ret |-> r.ret]
    /\ UNCHANGED <<machine, inM, inI, argM, argI, threads, displaced>>

NextSparse == SparseInit \/ SparseMatvecCall \/ SparseTransposeMatvecCall

SpecSparse == Init /\ [][NextSparse]_vars

-----------------------------------------------------------------------------
(* StandardizedMatrix (standardized_mat.py) *)

\* StandardizedMatrix(mat, shift, mult); shift and mult are 1-D sequences,
\* which np.atleast_1d(np.squeeze(...)) hands back with their length.
StandardizedMatrixInit(mat, shift, mult) ==
    IF ~IsMatrixBase(mat) THEN [err |-> "TypeError", obj |-> None]
    ELSE IF Len(shift) # mat.k THEN [err |-> "ValueError", obj |-> None]
    ELSE IF ~IsNone(mult) /\ Len(Get(mult)) # mat.k
    THEN [err |-> "ValueError", obj |-> None]
    ELSE [err |-> NoError,
          obj |-> Some([kind |-> "std", shift |-> shift, mult |-> mult, mat |-> mat,
                        n |-> mat.n, k |-> mat.k, dtype |-> mat.dtype])]

\* self.mat.toarray()
InnerToArray(mat, junk) ==
    IF mat.kind = "split" THEN SplitToArray(mat, junk) ELSE LeafToArray(mat)

\* What toarray gives when the multiplier is left out.
UnscaledToArray(self, junk) ==
    LET Shifted(mat_part) ==
            MkArr(self.n, self.k, LAMBDA i, j : mat_part.at[i][j] + self.shift[j])
    IN  Shifted(InnerToArray(self.mat, junk))

\* StandardizedMatrix.toarray()
StdToArray(self, junk) ==
    LET Affine(mat_part) ==
            MkArr(self.n, self.k,
                  LAMBDA i, j : (IF IsNone(self.mult) THEN mat_part.at[i][j]
                                 ELSE Get(self.mult)[j] * mat_part.at[i][j])
                                + self.shift[j])
    IN  Affine(InnerToArray(self.mat, junk))

\* self.mat.sandwich(d, rows, cols)
InnerSandwich(mat, d, rows, cols) ==
    LET Block(r) == IF r.err # NoError THEN SandwichError(r.err)
                    ELSE DenseResult(Get(r.ret))
    IN  IF mat.kind = "split" THEN Block(SplitSandwich(mat, d, rows, cols))
        ELSE LeafSandwich(mat, d, rows, cols)

\* self.mat.transpose_matvec(d, rows, cols)
InnerTransposeMatvec(mach, mat, vec, rows, cols) ==
    IF mat.kind = "split" THEN SplitTransposeMatvec(mach, mat, vec, rows, cols, None)
    ELSE LeafTransposeMatvec(mach, mat, vec, rows, cols)

\* StandardizedMatrix.sandwich(d, rows, cols); d is [dtype, vec].
\* check_sandwich_compatible passes a d with one entry per row.
StdSandwich(mach, self, d, rows, cols) ==
    LET cs == SetUpRowsOrCols(cols, self.k)
        rs == SetUpRowsOrCols(rows, self.n)
        limited_mult(q) == IF IsNone(self.mult) THEN 1 ELSE Get(self.mult)[cs[q] + 1]
        limited_shift(q) == self.shift[cs[q] + 1]
        sum_d == Sum([r \in 1..Len(rs) |-> d.vec[rs[r] + 1]])
        \* term2 + term3 + term4, then term1 on the diagonal or elementwise
        Res(term1, d_mat) ==
            MkArr(Len(cs), Len(cs),
                  LAMBDA a, b :
                      d_mat[a] * limited_shift(b) + limited_shift(a) * d_mat[b]
                      + limited_shift(a) * limited_shift(b) * sum_d
                      + (IF term1.dia
                         THEN (IF a = b
                               THEN term1.data[a] * limited_mult(a) * limited_mult(a)
                               ELSE 0)
                         ELSE term1.arr.at[a][b] * limited_mult(a) * limited_mult(b)))
        Scaled(term1, res) ==
            Return(Res(term1, [q \in 1..res.n |-> res.at[q][1] * limited_mult(q)]))
        Terms(term1, dm) ==
            IF term1.err # NoError THEN Raise(term1.err)
            ELSE IF dm.err # NoError THEN Raise(dm.err)
            ELSE Scaled(term1, Get(dm.ret))
    IN  IF Len(d.vec) # self.n THEN Raise("ValueError")
        ELSE Terms(InnerSandwich(self.mat, d, rows, cols),
                   InnerTransposeMatvec(mach, self.mat,
                       MkVec(d.dtype, 1, MkArr(Len(d.vec), 1, LAMBDA i, j : d.vec[i])),
                       rows, cols))

-----------------------------------------------------------------------------
(* A StandardizedMatrix: the calls *)

\* The inner matrices: a dense and a categorical one, the sparse ones, and the
\* SplitMatrix objects built from well-formed float64 arguments.
StdInners ==
    {Leaf(kind, 1, NRows, t) : kind \in {"dense", "cat"}, t \in DTypes}
        \cup SparseInputs
        \cup {Get(SplitMatrixInit(a.m, a.i).obj) :
                 a \in {x \in ValidInputs : \A p \in 1..Len(x.m) : x.m[p].dtype = "float64"}}

\* A 2-D array that is no MatrixBase.
PlainArray == [kind |-> "ndarray", n |-> NRows, k |-> 1]

\* shift -1, 1, 3, ... and mult 2, 3, 4, ..., of the length asked for.
ShiftOf(len) == [j \in 1..len |-> 2 * j - 3]
MultOf(len) == [j \in 1..len |-> j + 1]

\* obj = StandardizedMatrix(mat, shift, mult), the vectors with one entry per
\* column or one too many.
StdInit ==
    /\ last.op = "none"
    /\ \E mat \in StdInners \cup {PlainArray} :
          \E shift \in {ShiftOf(mat.k), ShiftOf(mat.k + 1)},
             mult \in {None, Some(MultOf(mat.k)), Some(MultOf(mat.k + 1))} :
              \E r \in {StandardizedMatrixInit(mat, shift, mult)} :
                  /\ obj' = r.obj
                  /\ last' = [op |-> "init", err |-> r.err]
    /\ UNCHANGED <<machine, inM, inI, argM, argI, threads, displaced>>

IsStd == ~IsNone(obj) /\ Get(obj).kind = "std"

\* obj.toarray() on a StandardizedMatrix
StdToArrayCall ==
    /\ IsStd /\ last.op = "init"
    /\ \E junk \in {0, 9} :
          last' = [op |-> "toarray", err |-> NoError,
                   ret |-> Some(StdToArray(Get(obj), junk))]
    /\ UNCHANGED <<machine, inM, inI, argM, argI, obj, threads, displaced>>

\* obj.sandwich(d, rows, cols) on a StandardizedMatrix
StdSandwichCall ==
    /\ IsStd /\ last.op = "init"
    /\ \E d \in Weights, rows \in RowChoices, cols \in ColChoices(Get(obj).k) :
          \E r \in {StdSandwich(machine, Get(obj), d, rows, cols)} :
              last' = [op |-> "sandwich", d |-> d, rows |-> rows, cols |-> cols,
                       err |-> r.err, ret |-> r.ret]
    /\ UNCHANGED <<machine, inM, inI, argM, argI, obj, threads, displaced>>

NextStd == StdInit \/ StdToArrayCall \/ StdSandwichCall

SpecStd == Init /\ [][NextStd]_vars

-----------------------------------------------------------------------------
(* SparseMatrix and StandardizedMatrix: the claims *)

\* C8: SparseMatrix.matvec(v, cols) equals toarray()[:, cols] @ v[cols] and
\* SparseMatrix.transpose_matvec(v, rows, cols) equals
\* toarray()[rows][:, cols].T @ v[rows], for rows and cols None or distinct
\* valid indices in any order, and for 1-D, single-column and multi-column v
\* (stated here for v of the matrix's dtype).
C8_SparseProductsMatchDense ==
    (IsSparse /\ last.op \in {"matvec", "transpose_matvec"}
        /\ last.v.dtype = Get(obj).dtype)
    => /\ last.err = NoError
       /\ ArrOf(Get(last.ret))
             = IF last.op = "matvec"
               THEN MatMul(TakeCols(CscToArray(Get(obj)),
                                    Requested(last.cols, Get(obj).k)),
                           TakeRows(ArrOf(last.v), Requested(last.cols, Get(obj).k)))
               ELSE MatMul(Transpose(TakeCols(TakeRows(CscToArray(Get(obj)),
                                                       Requested(last.rows, Get(obj).n)),
                                              Requested(last.cols, Get(obj).k))),
                           TakeRows(ArrOf(last.v), Requested(last.rows, Get(obj).n)))

\* C9: for a StandardizedMatrix built from inner matrix X, shift s and optional
\* multiplier m, toarray()[i, j] = m[j] * X[i, j] + s[j] for all i and j, with
\* m[j] = 1 when no multiplier was given.
C9_StdToArrayAffine ==
    (IsStd /\ last.op = "toarray") =>
        LET X == InnerToArray(Get(obj).mat, 0)
            m(j) == IF IsNone(Get(obj).mult) THEN 1 ELSE Get(Get(obj).mult)[j]
        IN  /\ last.err = NoError
            /\ Get(last.ret).n = X.n /\ Get(last.ret).k = X.k
            /\ \A i \in 1..X.n, j \in 1..X.k :
                  Get(last.ret).at[i][j] = m(j) * X.at[i][j] + Get(obj).shift[j]

\* toarray() of a StandardizedMatrix with a multiplier over a SplitMatrix of
\* several sub-matrices, some entry of which the multiplier changes.
C9_Witness ==
    /\ IsStd /\ last.op = "toarray"
    /\ ~IsNone(Get(obj).mult)
    /\ Get(obj).mat.kind = "split" /\ Len(Get(obj).mat.matrices) > 1
    /\ Get(last.ret) # UnscaledToArray(Get(obj), 0)

\* The dtypes of the inner matrix and of its sub-matrices.
InnerTypes(mat) ==
    IF mat.kind = "split" THEN {mat.matrices[p].dtype : p \in 1..Len(mat.matrices)}
    ELSE {mat.dtype}

\* C10: StandardizedMatrix.sandwich(d, rows, cols) equals
\* Y[rows][:, cols].T @ diag(d[rows]) @ Y[rows][:, cols] with Y = toarray(),
\* for every rows and cols, with or without a multiplier, whether the inner
\* sandwich is a dense block or diagonal-only (stated here for d of the inner
\* matrix's dtype).
C10_StdSandwichMatchesDense ==
    (IsStd /\ last.op = "sandwich" /\ InnerTypes(Get(obj).mat) = {last.d.dtype})
    => /\ last.err = NoError
       /\ Get(last.ret) = RefSandwich(StdToArray(Get(obj), 0), last.d.vec,
                                      Requested(last.rows, Get(obj).n),
                                      Requested(last.cols, Get(obj).k))

-----------------------------------------------------------------------------
(* StandardizedMatrix: matvec and transpose_matvec *)

\* self.mat.matvec(mult_other, cols, out=out)
InnerMatvec(mach, mat, vec, cols, out) ==
    IF mat.kind = "split" THEN SplitMatvec(mach, mat, vec, cols, out)
    ELSE LeafMatvec(mach, mat, vec, cols, out)

\* What a product of a StandardizedMatrix hands back: [err, ret, out].
StdOutcome(err, ret, out) == [err |-> err, ret |-> ret, out |-> out]

\* StandardizedMatrix.matvec(other_mat, cols, out).  check_matvec_dimensions
\* passes an operand with one entry per column; mult is a float64 array.
StdMatvec(mach, self, other_mat, cols, out) ==
    LET cs == SetUpRowsOrCols(cols, self.k)
        \* mat_part += shift_part, the buffer included when one was given
        Shifted(buf) ==
            [buf EXCEPT !.at =
                [i \in 1..buf.n |->
                    [c \in 1..buf.k |->
                        buf.at[i][c]
                          + Sum([q \in 1..Len(cs) |->
                                    self.shift[cs[q] + 1] * other_mat.at[cs[q] + 1][c]])]]]
        Finish(r) ==
            IF r.err # NoError THEN StdOutcome(r.err, None, out)
            ELSE StdOutcome(NoError, Some(Shifted(Get(r.ret))),
                            IF IsNone(out) THEN None ELSE Some(Shifted(Get(r.ret))))
    IN  IF other_mat.n # self.k THEN StdOutcome("ValueError", None, out)
        ELSE Finish(InnerMatvec(mach, self.mat,
                        IF IsNone(self.mult) THEN other_mat
                        ELSE MkVec("float64", other_mat.nd,
                                   MkArr(other_mat.n, other_mat.k,
                                         LAMBDA i, c : Get(self.mult)[i] * other_mat.at[i][c])),
                        Some(cs), out))

\* StandardizedMatrix.transpose_matvec(other, rows, cols, out)
StdTransposeMatvec(mach, self, other, rows, cols, out) ==
    LET rs == SetUpRowsOrCols(rows, self.n)
        cs == SetUpRowsOrCols(cols, self.k)
        other_sum(c) == Sum([r \in 1..Len(rs) |-> other.at[rs[r] + 1][c]])
        \* res *= mult[cols]; res += shift_part
        Affine(res) ==
            [res EXCEPT !.at =
                [q \in 1..res.n |->
                    [c \in 1..res.k |->
                        (IF IsNone(self.mult) THEN res.at[q][c]
                         ELSE res.at[q][c] * Get(self.mult)[cs[q] + 1])
                          + self.shift[cs[q] + 1] * other_sum(c)]]]
        Placed(buf) == StdOutcome(NoError, Some(buf), Some(buf))
        Finish(r) ==
            IF r.err # NoError THEN StdOutcome(r.err, None, out)
            ELSE IF IsNone(out) THEN StdOutcome(NoError, Some(Affine(Get(r.ret))), None)
            ELSE Placed(AddAtRows(Get(out), cs, Affine(Get(r.ret))))
    IN  IF other.n # self.n THEN StdOutcome("ValueError", None, out)
        ELSE Finish(InnerTransposeMatvec(mach, self.mat, other, rows, cols))

\* A product is called on the StandardizedMatrix the constructor returned.
StdFresh == IsStd /\ last.op = "init"

\* obj.matvec(v, cols) on a StandardizedMatrix, out omitted
StdMatvecCall ==
    /\ StdFresh
    /\ \E v \in VecChoices(Get(obj).k), cols \in ColChoices(Get(obj).k) :
          \E r \in {StdMatvec(machine, Get(obj), v, cols, None)} :
              last' = [op |-> "matvec", v |-> v, rows |-> None, cols |-> cols,
                       err |-> r.err, ret |-> r.ret]
    /\ UNCHANGED <<machine, inM, inI, argM, argI, obj, threads, displaced>>

\* obj.transpose_matvec(v, rows, cols) on a StandardizedMatrix, out omitted
StdTransposeMatvecCall ==
    /\ StdFresh
    /\ \E v \in VecChoices(NRows), rows \in RowChoices, cols \in ColChoices(Get(obj).k) :
          \E r \in {StdTransposeMatvec(machine, Get(obj), v, rows, cols, None)} :
              last' = [op |-> "transpose_matvec", v |-> v, rows |-> rows, cols |-> cols,
                       err |-> r.err, ret |-> r.ret]
    /\ UNCHANGED <<machine, inM, inI, argM, argI, obj, threads, displaced>>

NextStdMatvec == StdInit \/ StdMatvecCall \/ StdTransposeMatvecCall

SpecStdMatvec == Init /\ [][NextStdMatvec]_vars

\* C11: StandardizedMatrix.transpose_matvec(v, rows, cols) with out omitted
\* equals Y[rows][:, cols].T @ v[rows] with Y = toarray(), for every rows and
\* cols and with or without a multiplier (stated here for v of the inner
\* matrix's dtype).
C11_StdTransposeMatvecMatchesDense ==
    (IsStd /\ last.op = "transpose_matvec" /\ InnerTypes(Get(obj).mat) = {last.v.dtype})
    => /\ last.err = NoError
       /\ ArrOf(Get(last.ret))
             = MatMul(Transpose(TakeCols(TakeRows(StdToArray(Get(obj), 0),
                                                  Requested(last.rows, Get(obj).n)),
                                         Requested(last.cols, Get(obj).k))),
                      TakeRows(ArrOf(last.v), Requested(last.rows, Get(obj).n)))

\* C12: StandardizedMatrix.matvec(v, cols) with out omitted equals
\* Y[:, cols] @ v[cols] with Y = toarray(), with or without a multiplier
\* (stated here for 1-D v of the inner matrix's dtype).
C12_StdMatvecMatchesDense ==
    (IsStd /\ last.op = "matvec" /\ last.v.nd = 1
        /\ InnerTypes(Get(obj).mat) = {last.v.dtype})
    => /\ last.err = NoError
       /\ ArrOf(Get(last.ret))
             = MatMul(TakeCols(StdToArray(Get(obj), 0), Requested(last.cols, Get(obj).k)),
                      TakeRows(ArrOf(last.v), Requested(last.cols, Get(obj).k)))

-----------------------------------------------------------------------------
(* astype *)

\* mat.astype(dtype, copy=copy) of a dense, sparse or categorical matrix: the
\* matrix itself when nothing is to be cast and no copy is asked for, else a
\* new matrix of that dtype with the same entries (a new SparseMatrix starts
\* without its row-major view).
LeafAstype(mat, dtype, copy) ==
    IF mat.dtype = dtype /\ ~copy THEN mat
    ELSE IF mat.kind = "sparse" THEN [mat EXCEPT !.dtype = dtype, !.x_csr = None]
    ELSE [mat EXCEPT !.dtype = dtype]

\* SplitMatrix.astype(dtype, copy=copy): [err, ret, self], ret the object
\* returned and self the receiver as the call leaves it.  With copy the
\* constructor gets a new list of matrices and the receiver's list of indices;
\* without it the receiver's own two lists, whose matrices were replaced first.
SplitAstype(self, dtype, copy) ==
    LET cast == [i \in 1..Len(self.matrices) |-> LeafAstype(self.matrices[i], dtype, copy)]
        Built(r) ==
            [err |-> r.err, ret |-> r.obj,
             self |-> [self EXCEPT !.matrices = IF copy THEN self.matrices ELSE r.am,
                                   !.indices = Get(r.ai)]]
    IN  Built(SplitMatrixInit(cast, Some(self.indices)))

\* self.mat.astype(dtype, casting=casting, copy=copy)
InnerAstype(mat, dtype, copy) ==
    LET Leaf1(m) == [err |-> NoError, ret |-> Some(m), self |-> mat]
    IN  IF mat.kind = "split" THEN SplitAstype(mat, dtype, copy)
        ELSE Leaf1(LeafAstype(mat, dtype, copy))

\* StandardizedMatrix.astype(dtype, copy=copy): a StandardizedMatrix of the cast
\* inner matrix and the cast shift.
StdAstype(self, dtype, copy) ==
    LET Built(inner, r) ==
            [err |-> r.err, ret |-> r.obj, self |-> [self EXCEPT !.mat = inner.self]]
        Wrap(inner) ==
            IF inner.err # NoError THEN [err |-> inner.err, ret |-> None, self |-> self]
            ELSE Built(inner, StandardizedMatrixInit(Get(inner.ret), self.shift, None))
    IN  Wrap(InnerAstype(self.mat, dtype, copy))

\* obj.astype(dtype, copy=copy) on a SplitMatrix
SplitAstypeCall ==
    /\ Fresh
    /\ \E dtype \in DTypes, copy \in BOOLEAN :
          \E r \in {SplitAstype(Get(obj), dtype, copy)} :
              /\ obj' = Some(r.self)
              /\ last' = [op |-> "astype", dtype |-> dtype, copy |-> copy,
                          before |-> Get(obj), err |-> r.err, ret |-> r.ret]
    /\ UNCHANGED <<machine, inM, inI, argM, argI, threads, displaced>>

\* obj.astype(dtype, copy=copy) on a StandardizedMatrix
StdAstypeCall ==
    /\ StdFresh
    /\ \E dtype \in DTypes, copy \in BOOLEAN :
          \E r \in {StdAstype(Get(obj), dtype, copy)} :
              /\ obj' = Some(r.self)
              /\ last' = [op |-> "astype", dtype |-> dtype, copy |-> copy,
                          before |-> Get(obj), err |-> r.err, ret |-> r.ret]
    /\ UNCHANGED <<machine, inM, inI, argM, argI, threads, displaced>>

NextAstype == SplitInitValid \/ SplitAstypeCall \/ StdInit \/ StdAstypeCall

SpecAstype == Init /\ [][NextAstype]_vars

\* C13: StandardizedMatrix.astype(dtype) returns a StandardizedMatrix whose
\* inner matrix, shift and multiplier are those of the receiver cast to dtype,
\* so that astype(dtype).toarray() equals the receiver's toarray().
C13_StdAstypePassThrough ==
    (IsStd /\ last.op = "astype") =>
        /\ last.err = NoError
        /\ Get(last.ret).dtype = last.dtype
        /\ InnerToArray(Get(last.ret).mat, 0) = InnerToArray(last.before.mat, 0)
        /\ Get(last.ret).shift = last.before.shift
        /\ Get(last.ret).mult = last.before.mult
        /\ StdToArray(Get(last.ret), 0) = StdToArray(last.before, 0)

\* C14: SplitMatrix.astype leaves the receiver unchanged for every value of
\* copy: its dtype, shape, sub-matrices (each one's dtype included) and index
\* arrays are after the call what they were before.
C14_SplitAstypeKeepsReceiver ==
    (IsSplit /\ last.op = "astype") => Get(obj) = last.before

-----------------------------------------------------------------------------
(* Products with a caller's out buffer *)

\* The buffer a caller hands in: n entries per column, shaped like v, of the
\* dtype the product has, holding 11, 12, ..., 21, 22, ...
OutBuffer(n, v, dtype) == MkVec(dtype, v.nd, MkArr(n, v.k, LAMBDA i, j : 10 * i + j))

\* obj.matvec(v, cols, out) on a SparseMatrix
SparseMatvecOut ==
    /\ SparseReady
    /\ \E v \in VecChoices(Get(obj).k), cols \in ColChoices(Get(obj).k) :
          \E out \in {OutBuffer(NRows, v, ResultType(Get(obj).dtype, v.dtype))} :
              \E r \in {SparseMatvec(machine, Get(obj), v, cols, Some(out))} :
                  /\ obj' = Some(IF r.csr THEN WithXCsr(Get(obj)) ELSE Get(obj))
                  /\ last' = [op |-> "matvec", v |-> v, rows |-> None, cols |-> cols,
                              given |-> out, out |-> r.out, err |-> r.err, ret |-> r.ret]
    /\ UNCHANGED <<machine, inM, inI, argM, argI, threads, displaced>>

\* obj.transpose_matvec(v, rows, cols, out) on a SparseMatrix
SparseTransposeMatvecOut ==
    /\ SparseReady
    /\ \E v \in VecChoices(NRows), rows \in RowChoices, cols \in ColChoices(Get(obj).k) :
          \E out \in {OutBuffer(Get(obj).k, v, ResultType(Get(obj).dtype, v.dtype))} :
              \E r \in {SparseTransposeMatvec(machine, Get(obj), v, rows, cols, Some(out))} :
                  /\ obj' = Some(IF r.csr THEN WithXCsr(Get(obj)) ELSE Get(obj))
                  /\ last' = [op |-> "transpose_matvec", v |-> v, rows |-> rows,
                              cols |-> cols, given |-> out, out |-> r.out,
                              err |-> r.err, ret |-> r.ret]
    /\ UNCHANGED <<machine, inM, inI, argM, argI, threads, displaced>>

NextSparseOut == SparseInit \/ SparseMatvecOut \/ SparseTransposeMatvecOut

SpecSparseOut == Init /\ [][NextSparseOut]_vars

\* toarray()[:, cols] @ v[cols] of the last call, for the dense form A
MatvecProduct(A) ==
    MatMul(TakeCols(A, Requested(last.cols, A.k)),
           TakeRows(ArrOf(last.v), Requested(last.cols, A.k)))

\* What the last transpose_matvec owes the buffer for the dense form A: for a
\* requested column c the entry (A[rows].T @ v[rows])[c], for the other
\* columns nothing.
TransposeContribution(A) ==
    MkArr(A.k, last.v.k,
          LAMBDA c, j :
              IF (c - 1) \in Range(Requested(last.cols, A.k))
              THEN Sum([r \in 1..Len(Requested(last.rows, A.n)) |->
                           A.at[Requested(last.rows, A.n)[r] + 1][c]
                             * last.v.at[Requested(last.rows, A.n)[r] + 1][j]])
              ELSE 0)

\* The buffer of the last transpose_matvec as it should be left.
TransposeAccumulated(A) == ArrAdd(ArrOf(last.given), TransposeContribution(A))

\* C15: a caller's out buffer passed to SparseMatrix.matvec or
\* SparseMatrix.transpose_matvec is added to, never overwritten:
\* out_after = out_before + product on the affected positions, the other
\* positions unchanged, on every dispatch path and for either dot-product
\* backend (stated here for v of the matrix's dtype).
C15_SparseOutAccumulated ==
    (IsSparse /\ last.op \in {"matvec", "transpose_matvec"}
        /\ last.v.dtype = Get(obj).dtype)
    => /\ last.err = NoError
       /\ ArrOf(Get(last.out))
             = IF last.op = "matvec"
               THEN ArrAdd(ArrOf(last.given), MatvecProduct(CscToArray(Get(obj))))
               ELSE TransposeAccumulated(CscToArray(Get(obj)))

\* A SplitMatrix call with a buffer is made on a new object with a new buffer,
\* or once more with the arguments and the buffer of the call before.
Again(op) == IsSplit /\ last.op = op /\ last.err = NoError /\ last.calls = 1

\* obj.matvec(v, cols, out) on a SplitMatrix
MatvecOut ==
    /\ \/ /\ Fresh
          /\ \E v \in VecChoices(Get(obj).k), cols \in ColChoices(Get(obj).k) :
                \E out \in {OutBuffer(NRows, v, ResultType(Get(obj).dtype, v.dtype))} :
                    \E r \in {SplitMatvec(machine, Get(obj), v, cols, Some(out))} :
                        last' = [op |-> "matvec", v |-> v, rows |-> None, cols |-> cols,
                                 given |-> out, calls |-> 1, out |-> r.out,
                                 err |-> r.err, ret |-> r.ret]
       \/ /\ Again("matvec")
          /\ \E r \in {SplitMatvec(machine, Get(obj), last.v, last.cols, last.out)} :
                last' = [last EXCEPT !.calls = 2, !.out = r.out,
                                     !.err = r.err, !.ret = r.ret]
    /\ UNCHANGED <<machine, inM, inI, argM, argI, obj, threads, displaced>>

\* obj.transpose_matvec(v, rows, cols, out) on a SplitMatrix
TransposeMatvecOut ==
    /\ \/ /\ Fresh
          /\ \E v \in VecChoices(NRows), rows \in RowChoices,
                cols \in ColChoices(Get(obj).k) :
                \E out \in {OutBuffer(Get(obj).k, v, ResultType(Get(obj).dtype, v.dtype))} :
                    \E r \in {SplitTransposeMatvec(machine, Get(obj), v, rows, cols,
                                                   Some(out))} :
                        last' = [op |-> "transpose_matvec", v |-> v, rows |-> rows,
                                 cols |-> cols, given |-> out, calls |-> 1,
                                 out |-> r.out, err |-> r.err, ret |-> r.ret]
       \/ /\ Again("transpose_matvec")
          /\ \E r \in {SplitTransposeMatvec(machine, Get(obj), last.v, last.rows,
                                            last.cols, last.out)} :
                last' = [last EXCEPT !.calls = 2, !.out = r.out,
                                     !.err = r.err, !.ret = r.ret]
    /\ UNCHANGED <<machine, inM, inI, argM, argI, obj, threads, displaced>>

NextSplitOut == SplitInitValid \/ MatvecOut \/ TransposeMatvecOut

SpecSplitOut == Init /\ [][NextSplitOut]_vars

\* A with every entry taken m times
Times(m, A) == MkArr(A.n, A.k, LAMBDA i, j : m * A.at[i][j])

\* C16: SplitMatrix.matvec and SplitMatrix.transpose_matvec with a caller's
\* out buffer add to it: after transpose_matvec every requested column's entry
\* has grown by (toarray()[rows].T @ v[rows])[c] and the other entries are
\* unchanged, after matvec out has grown by toarray()[:, cols] @ v[cols], and
\* a second call with the same buffer adds the contribution a second time
\* (stated here for v of the sub-matrices' dtype and for the calls that
\* return).
C16_SplitOutAccumulated ==
    (IsSplit /\ last.op \in {"matvec", "transpose_matvec"} /\ OperandTypeShared
        /\ last.err = NoError)
    => ArrOf(Get(last.out))
             = ArrAdd(ArrOf(last.given),
                      Times(last.calls, IF last.op = "matvec" THEN MatvecProduct(ObjArray)
                                        ELSE TransposeContribution(ObjArray)))

-----------------------------------------------------------------------------
(* A concrete scenario: the data of the test fixtures in three formats *)

\* base_array() of tests/test_matrices.py
base_array == [n |-> 3, k |-> 2, at |-> << <<0, 0>>, <<0, -1>>, <<0, 2>> >>]

\* The data the three formats are built from: base_array and two arrays with
\* entries in the first column.
ScenarioData ==
    {base_array,
     [n |-> 3, k |-> 2, at |-> << <<1, 0>>, <<0, -1>>, <<2, 2>> >>],
     [n |-> 3, k |-> 2, at |-> << <<0, 3>>, <<-1, 0>>, <<0, 1>> >>]}

\* The weights: all ones and 3, 1, 2, in either dtype.
ScenarioWeights ==
    {[dtype |-> t, vec |-> w] : t \in DTypes, w \in {<<1, 1, 1>>, <<3, 1, 2>>}}

\* dense_matrix_F(), sparse_matrix() and the SplitMatrix of column 0 as a
\* DenseMatrix and column 1 as a SparseMatrix, in either order of the list.
ScenarioFormats == {"dense", "sparse", "split", "split_reversed"}

ScenarioMatrix(fmt, A) ==
    LET dense_0 == DenseMatrix(TakeCols(A, <<0>>), "float64")
        sparse_1 == SparseMatrix(TakeCols(A, <<1>>), "float64")
    IN  CASE fmt = "dense" -> Some(DenseMatrix(A, "float64"))
          [] fmt = "sparse" -> Some(SparseMatrix(A, "float64"))
          [] fmt = "split" -> SplitMatrixInit(<<dense_0, sparse_1>>, None).obj
          [] fmt = "split_reversed" ->
                 SplitMatrixInit(<<sparse_1, dense_0>>, Some(<< <<1>>, <<0>> >>)).obj

\* mat.sandwich(d, rows, cols) of a matrix of any format
MatSandwich(self, d, rows, cols) ==
    LET Lift(r) == IF r.err # NoError THEN Raise(r.err) ELSE Return(r.arr)
    IN  IF self.kind = "split" THEN SplitSandwich(self, d, rows, cols)
        ELSE Lift(LeafSandwich(self, d, rows, cols))

\* One of the fixtures is built.
ScenarioInit ==
    /\ last.op = "none"
    /\ \E fmt \in ScenarioFormats, A \in ScenarioData :
          /\ obj' = ScenarioMatrix(fmt, A)
          /\ last' = [op |-> "init", err |-> NoError, data |-> A]
    /\ UNCHANGED <<machine, inM, inI, argM, argI, threads, displaced>>

\* mat.sandwich(d, rows, cols) on a fixture
ScenarioSandwich ==
    /\ ~IsNone(obj)
    /\ last.op = "init"
    /\ \E d \in ScenarioWeights, rows \in {None, Some(<<2, 0>>)},
          cols \in {None, Some(<<1>>), Some(<<1, 0>>)} :
          \E r \in {MatSandwich(Get(obj), d, rows, cols)} :
              last' = [op |-> "sandwich", data |-> last.data, d |-> d, rows |-> rows,
                       cols |-> cols, err |-> r.err, ret |-> r.ret]
    /\ UNCHANGED <<machine, inM, inI, argM, argI, obj, threads, displaced>>

NextScenario == ScenarioInit \/ ScenarioSandwich

SpecScenario == Init /\ [][NextScenario]_vars

\* The case of the scenario: base_array, d = [1, 1, 1] as a float64 array,
\* no restriction.
ScenarioCase ==
    /\ ~IsNone(obj)
    /\ last.op = "sandwich"
    /\ last.data = base_array
    /\ last.d = [dtype |-> "float64", vec |-> <<1, 1, 1>>]
    /\ IsNone(last.rows)
    /\ IsNone(last.cols)

\* The three terms of the SplitMatrix of the scenario: the diagonal block of
\* the dense sub-matrix, that of the sparse one, and their cross block.
ScenarioBlocks(self, d) ==
    LET dense == CHOOSE m \in Range(self.matrices) : m.kind = "dense"
        sparse == CHOOSE m \in Range(self.matrices) : m.kind = "sparse"
    IN  [dense |-> LeafSandwich(dense, d, None, None).arr.at,
         sparse |-> LeafSandwich(sparse, d, None, None).arr.at,
         cross |-> LeafCrossSandwich(self.matrices[1], self.matrices[2],
                                     d, None, None, None).arr.at]

\* C17: for the data [[0,0],[0,-1],[0,2]] and d = [1,1,1], sandwich(d)
\* returns [[0,0],[0,5]] for the DenseMatrix, for the SparseMatrix and for the
\* SplitMatrix of column 0 dense and column 1 sparse, whose terms are the dense
\* diagonal block [[0]], the sparse diagonal block [[5]] and a zero cross block.
C17_ScenarioSandwich ==
    ScenarioCase
    => /\ last.err = NoError
       /\ Get(last.ret) = [n |-> 2, k |-> 2, at |-> << <<0, 0>>, <<0, 5>> >>]
       /\ Get(obj).kind = "split"
             => ScenarioBlocks(Get(obj), last.d)
                    = [dense |-> << <<0>> >>, sparse |-> << <<5>> >>, cross |-> << <<0>> >>]

\* The scenario has been run on the SplitMatrix.
C17_Witness ==
    /\ ScenarioCase
    /\ Get(obj).kind = "split"
    /\ Len(Get(obj).matrices) = 2
    /\ Get(last.ret).at[2][2] = 5

-----------------------------------------------------------------------------
(* cross_sandwich between two concrete matrices *)

\* A matrix of one kind for a pair: two columns of Table from column p on for
\* a dense or sparse matrix, two categories for a categorical one.
PairLeaf(kind, p, dtype) ==
    CASE kind = "dense" -> DenseMatrix(MkArr(NRows, 2, LAMBDA i, j : Base(i, p + j - 1)), dtype)
      [] kind = "sparse" -> SparseMatrix(MkArr(NRows, 2, LAMBDA i, j : Base(i, p + j - 1)), dtype)
      [] kind = "cat" -> CategoricalMatrix([i \in 1..NRows |-> (i + p) % 2], 2, dtype)

\* mat_i and mat_j are built: obj is mat_i, last.other is mat_j.
PairInit ==
    /\ last.op = "none"
    /\ \E ki \in Kinds, kj \in Kinds, ti \in DTypes, tj \in DTypes :
          /\ obj' = Some(PairLeaf(ki, 1, ti))
          /\ last' = [op |-> "init", err |-> NoError, other |-> PairLeaf(kj, 3, tj)]
    /\ UNCHANGED <<machine, inM, inI, argM, argI, threads, displaced>>

IsPair == ~IsNone(obj) /\ Get(obj).kind \in Kinds /\ last.op \in {"init", "cross_sandwich", "back"}

\* res = mat_i.cross_sandwich(mat_j, d, rows, L_cols, R_cols)
CrossSandwich ==
    /\ IsPair
    /\ last.op = "init"
    /\ \E d \in Weights, rows \in RowChoices, L_cols \in ColChoices(2), R_cols \in ColChoices(2) :
          \E r \in {LeafCrossSandwich(Get(obj), last.other, d, rows, L_cols, R_cols)} :
              last' = [op |-> "cross_sandwich", other |-> last.other, d |-> d,
                       rows |-> rows, L_cols |-> L_cols, R_cols |-> R_cols,
                       err |-> r.err, res |-> r.arr]
    /\ UNCHANGED <<machine, inM, inI, argM, argI, obj, threads, displaced>>

\* back = mat_j.cross_sandwich(mat_i, d, rows, R_cols, L_cols), after the call
\* the other way round
CrossSandwichBack ==
    /\ IsPair
    /\ last.op = "cross_sandwich"
    /\ \E r \in {LeafCrossSandwich(last.other, Get(obj), last.d, last.rows,
                                   last.R_cols, last.L_cols)} :
          last' = [op |-> "back", other |-> last.other, d |-> last.d,
                   rows |-> last.rows, L_cols |-> last.L_cols, R_cols |-> last.R_cols,
                   err |-> last.err, res |-> last.res,
                   back_err |-> r.err, back |-> r.arr]
    /\ UNCHANGED <<machine, inM, inI, argM, argI, obj, threads, displaced>>

NextCross == PairInit \/ CrossSandwich \/ CrossSandwichBack

SpecCross == Init /\ [][NextCross]_vars

\* A[rows][:, Lc].T @ diag(d[rows]) @ B[rows][:, Rc] on the dense forms
CrossReference ==
    RefCross(LeafToArray(Get(obj)), LeafToArray(last.other), last.d.vec,
             Requested(last.rows, Get(obj).n),
             Requested(last.L_cols, Get(obj).k), Requested(last.R_cols, last.other.k))

\* Both matrices and d have one dtype.
PairTypeShared == Get(obj).dtype = last.d.dtype /\ last.other.dtype = last.d.dtype

\* Both calls returned, are transposes of each other and equal the reference.
CrossSymmetric ==
    /\ last.err = NoError
    /\ last.res = CrossReference
    /\ last.op = "back"
          => last.back_err = NoError /\ last.res = Transpose(last.back)

\* C18 (as amended): for every ordered pair (A, B) of formats among dense,
\* sparse and categorical other than (sparse, sparse), with equal row counts
\* and A, B and d of one dtype, A.cross_sandwich(B, d, rows, Lc, Rc) is the
\* transpose of B.cross_sandwich(A, d, rows, Rc, Lc), and both equal
\* A[rows][:, Lc].T @ diag(d[rows]) @ B[rows][:, Rc] on the dense forms.
C18_CrossSandwichSymmetric ==
    (IsPair /\ last.op # "init" /\ PairTypeShared
        /\ ~(Get(obj).kind = "sparse" /\ last.other.kind = "sparse"))
    => CrossSymmetric

\* C18 (as stated): the same for every ordered pair, two sparse matrices
\* included.
C18_CrossSandwichEveryPair ==
    (IsPair /\ last.op # "init" /\ PairTypeShared) => CrossSymmetric

\* Both calls have returned for a sparse and a dense matrix, with rows and
\* both column restrictions in descending order.
C18_Witness ==
    /\ IsPair /\ last.op = "back" /\ PairTypeShared
    /\ Get(obj).kind = "sparse" /\ last.other.kind = "dense"
    /\ last.rows = Some(Perm(NRows, 2))
    /\ last.L_cols = Some(Perm(2, 2)) /\ last.R_cols = Some(Perm(2, 2))
    /\ last.back_err = NoError
    /\ last.res # Transpose(last.res)

-----------------------------------------------------------------------------
(* SparseMatrix.x_csr read by several threads.  A thread may be suspended    *)
(* between any two reads or writes of an attribute, so every read and every  *)
(* write of self._x_csr and of its index arrays is a step of its own.        *)

IdxDTypes == {"int32", "int64"}

\* An astype that loses the entries.
AstypeZeros(arr, dtype) == [q \in 1..Len(arr) |-> 0]

\* arr.astype(dtype) of an index array: int32 keeps the low 32 bits, the
\* upper 16 of them read as a signed number.
Astype(arr, dtype) ==
    LET Signed(hi) == IF hi >= 32768 THEN hi - 65536 ELSE hi
        Wrap(x) == Signed((x \div 65536) % 65536) * 65536 + (x % 65536)
    IN  [q \in 1..Len(arr) |-> IF dtype = "int32" THEN Wrap(arr[q]) ELSE arr[q]]

\* self.tocsr(copy=False): a new csr_matrix object (id tells the objects
\* apart) whose index arrays have the dtype dt scipy picks.
Tocsr(self, id, dt) ==
    LET View(c) ==
            [id |-> id, n |-> c.n, k |-> c.k,
             indptr |-> c.indptr, indices |-> c.indices, data |-> c.data,
             indptr_dtype |-> dt, indices_dtype |-> dt]
    IN  View(CsrOf(CscToArray(self)))

\* The content of a view: its data, index and pointer values.
Content(view) == [data |-> view.data, indices |-> view.indices, indptr |-> view.indptr]

\* The matrices the property is read on: the first column of Table, and its
\* first two columns.
XCsrInputs ==
    {SparseMatrix(MkArr(NRows, w, LAMBDA i, j : Base(i, j)), "float64") : w \in 1..2}

\* A thread that has not read the property yet.
Idle == [pc |-> "check", tmp |-> None, late |-> FALSE, got |-> None]

\* obj = SparseMatrix(arg1), its index arrays of dtype idx_dtype; the threads
\* are about to read obj.x_csr.
XCsrInit ==
    /\ last.op = "none"
    /\ \E m \in XCsrInputs, t \in IdxDTypes :
          obj' = Some([kind |-> "sparse", dtype |-> m.dtype, n |-> m.n, k |-> m.k,
                       indptr |-> m.indptr, indices |-> m.indices, data |-> m.data,
                       x_csr |-> None, idx_dtype |-> t])
    /\ last' = [op |-> "init", err |-> NoError]
    /\ threads' = [t \in 1..NThreads |-> Idle]
    /\ UNCHANGED <<machine, inM, inI, argM, argI, displaced>>

\* Thread t is at position pc of the property.
At(t, pc) == IsSparse /\ threads # <<>> /\ threads[t].pc = pc

Cached == Get(Get(obj).x_csr)

\* Some access has returned.
Returned == \E t \in 1..NThreads : ~IsNone(threads[t].got)

\* if self._x_csr is None
Check(t) ==
    /\ At(t, "check")
    /\ threads' = [threads EXCEPT ![t].pc =
                       IF IsNone(Get(obj).x_csr) THEN "tocsr" ELSE "return",
                   ![t].late = Returned]
    /\ UNCHANGED <<machine, inM, inI, argM, argI, obj, last, displaced>>

\* self.tocsr(copy=False), not yet assigned
BuildView(t) ==
    /\ At(t, "tocsr")
    /\ \E dt \in IdxDTypes :
          threads' = [threads EXCEPT ![t].pc = "store",
                                     ![t].tmp = Some(Tocsr(Get(obj), t, dt))]
    /\ UNCHANGED <<machine, inM, inI, argM, argI, obj, last, displaced>>

\* self._x_csr = <the new view>
Store(t) ==
    /\ At(t, "store")
    /\ obj' = Some([Get(obj) EXCEPT !.x_csr = threads[t].tmp])
    /\ displaced' = IF IsNone(Get(obj).x_csr) THEN displaced ELSE displaced \cup {Cached}
    /\ threads' = [threads EXCEPT ![t].pc = "indices", ![t].tmp = None]
    /\ UNCHANGED <<machine, inM, inI, argM, argI, last>>

\* if self._x_csr.indices.dtype != self.idx_dtype: the right-hand side
\* self._x_csr.indices.astype(self.idx_dtype) is evaluated
ReadIndices(t) ==
    /\ At(t, "indices")
    /\ threads' =
          IF Cached.indices_dtype = Get(obj).idx_dtype
          THEN [threads EXCEPT ![t].pc = "indptr"]
          ELSE [threads EXCEPT ![t].pc = "indices_store",
                               ![t].tmp = Some(Astype(Cached.indices, Get(obj).idx_dtype))]
    /\ UNCHANGED <<machine, inM, inI, argM, argI, obj, last, displaced>>

\* self._x_csr.indices = <the converted array>
WriteIndices(t) ==
    /\ At(t, "indices_store")
    /\ obj' = Some([Get(obj) EXCEPT !.x_csr =
                       Some([Cached EXCEPT !.indices = Get(threads[t].tmp),
                                           !.indices_dtype = Get(obj).idx_dtype])])
    /\ threads' = [threads EXCEPT ![t].pc = "indptr", ![t].tmp = None]
    /\ UNCHANGED <<machine, inM, inI, argM, argI, last, displaced>>

\* if self._x_csr.indptr.dtype != self.idx_dtype: the right-hand side
\* self._x_csr.indptr.astype(self.idx_dtype) is evaluated
ReadIndptr(t) ==
    /\ At(t, "indptr")
    /\ threads' =
          IF Cached.indptr_dtype = Get(obj).idx_dtype
          THEN [threads EXCEPT ![t].pc = "return"]
          ELSE [threads EXCEPT ![t].pc = "indptr_store",
                               ![t].tmp = Some(Astype(Cached.indptr, Get(obj).idx_dtype))]
    /\ UNCHANGED <<machine, inM, inI, argM, argI, obj, last, displaced>>

\* self._x_csr.indptr = <the converted array>
WriteIndptr(t) ==
    /\ At(t, "indptr_store")
    /\ obj' = Some([Get(obj) EXCEPT !.x_csr =
                       Some([Cached EXCEPT !.indptr = Get(threads[t].tmp),
                                           !.indptr_dtype = Get(obj).idx_dtype])])
    /\ threads' = [threads EXCEPT ![t].pc = "return", ![t].tmp = None]
    /\ UNCHANGED <<machine, inM, inI, argM, argI, last, displaced>>

\* return self._x_csr: the caller holds the object (id) and has looked at its
\* content (seen) and at the dtypes of its index arrays.
ReturnView(t) ==
    /\ At(t, "return")
    /\ threads' = [threads EXCEPT ![t].pc = "done",
                                  ![t].got = Some([id |-> Cached.id, seen |-> Content(Cached),
                                                   indices_dtype |-> Cached.indices_dtype,
                                                   indptr_dtype |-> Cached.indptr_dtype])]
    /\ UNCHANGED <<machine, inM, inI, argM, argI, obj, last, displaced>>

XCsrStep(t) ==
    \/ Check(t)
    \/ BuildView(t)
    \/ Store(t)
    \/ ReadIndices(t)
    \/ WriteIndices(t)
    \/ ReadIndptr(t)
    \/ WriteIndptr(t)
    \/ ReturnView(t)

NextXCsr == XCsrInit \/ \E t \in 1..NThreads : XCsrStep(t)

SpecXCsr == Init /\ [][NextXCsr]_vars

\* The view object a caller holds, as it is now: the cached one, or one that
\* was replaced in the cache.
Held(id) ==
    IF Cached.id = id THEN Cached ELSE CHOOSE v \in displaced : v.id = id

\* The row-major content of the matrix.
RowMajor(self) ==
    LET c == CsrOf(CscToArray(self))
    IN  [data |-> c.data, indices |-> c.indices, indptr |-> c.indptr]

\* C19: the row-major view is built on first access and then cached: an
\* access that begins after one has returned builds nothing; every access,
\* racing with the first one or later, returns a view with the same content
\* (data, index and pointer values), that of the matrix; the content a caller
\* saw stays the content of the object it holds and of the cached view.
C19_XCsrOneContent ==
    (IsSparse /\ threads # <<>>)
    => /\ \A t \in 1..NThreads :
             threads[t].late
                 => threads[t].pc \in {"check", "return", "done"} /\ IsNone(threads[t].tmp)
       /\ Returned => ~IsNone(Get(obj).x_csr) /\ Content(Cached) = RowMajor(Get(obj))
       /\ \A t \in 1..NThreads :
             ~IsNone(threads[t].got)
                 => /\ Get(threads[t].got).seen = RowMajor(Get(obj))
                    /\ Content(Held(Get(threads[t].got).id)) = Get(threads[t].got).seen
                    /\ \A u \in 1..NThreads :
                          ~IsNone(threads[u].got)
                              => Get(threads[u].got).seen = Get(threads[t].got).seen

\* Threads raced on the first access: more than one built a view, all have
\* returned, and two of them hold different objects.
C19_Witness ==
    /\ IsSparse /\ threads # <<>>
    /\ \A t \in 1..NThreads : threads[t].pc = "done"
    /\ \E t, u \in 1..NThreads : Get(threads[t].got).id # Get(threads[u].got).id
    /\ displaced # {}
    /\ Len(Cached.data) > 1

-----------------------------------------------------------------------------
(* SplitMatrix.getcol *)

\* The index taken as it is.
NoWrapAround(i, n_cols) == i

\* i %= self.shape[1]: Python's remainder has the sign of the divisor.
WrapAround(i, n_cols) == i % n_cols

\* mat.getcol(loc) of a sub-matrix: column loc, with n rows and one column.
LeafGetcol(mat, loc) == TakeCols(LeafToArray(mat), <<loc>>)

\* The loop of getcol from pair p of zip(self.matrices, self.indices) on.
RECURSIVE GetcolLoop(_, _, _)
GetcolLoop(self, i, p) ==
    IF p > Min(Len(self.matrices), Len(self.indices)) THEN Raise("RuntimeError")
    ELSE IF i \in Range(self.indices[p])
    THEN Return(LeafGetcol(self.matrices[p], PosOf(self.indices[p], i) - 1))
    ELSE GetcolLoop(self, i, p + 1)

\* SplitMatrix.getcol(i)
SplitGetcol(self, i) == GetcolLoop(self, WrapAround(i, self.k), 1)

\* obj.getcol(i) on a SplitMatrix, i from one below -n_cols to one above n_cols
Getcol ==
    /\ Fresh
    /\ \E i \in (-(Get(obj).k + 1))..(Get(obj).k + 1) :
          \E r \in {SplitGetcol(Get(obj), i)} :
              last' = [op |-> "getcol", i |-> i, err |-> r.err, ret |-> r.ret]
    /\ UNCHANGED <<machine, inM, inI, argM, argI, obj, threads, displaced>>

NextGetcol == SplitInitValid \/ Getcol

SpecGetcol == Init /\ [][NextGetcol]_vars

\* The sub-matrices whose index array contains global column c.
Owners(c) == {p \in 1..Len(Get(obj).indices) : c \in Range(Get(obj).indices[p])}

\* C20: getcol(i) returns, for every integer i, column (i mod n_cols) of
\* toarray(); the column comes from the unique sub-matrix whose index array
\* contains that global column, at the local position where it occurs there,
\* and RuntimeError is never raised on a validly constructed SplitMatrix.
C20_GetcolWrapsAround ==
    (IsSplit /\ last.op = "getcol")
    => /\ last.err = NoError
       /\ Get(last.ret) = TakeCols(ObjArray, <<last.i % Get(obj).k>>)
       /\ Cardinality(Owners(last.i % Get(obj).k)) = 1
       /\ \A p \in Owners(last.i % Get(obj).k) :
             Get(last.ret)
                 = TakeCols(LeafToArray(Get(obj).matrices[p]),
                            <<PosOf(Get(obj).indices[p], last.i % Get(obj).k) - 1>>)

\* A negative i whose column lies in the second sub-matrix, not at its first
\* local position, under an index list the caller gave.
C20_Witness ==
    /\ IsSplit /\ last.op = "getcol" /\ last.err = NoError
    /\ last.i < 0
    /\ ~IsNone(inI)
    /\ Owners(last.i % Get(obj).k) = {2}
    /\ PosOf(Get(obj).indices[2], last.i % Get(obj).k) > 1
    /\ Get(last.ret) # TakeCols(ObjArray, <<0>>)

-----------------------------------------------------------------------------
(* Operands of the wrong shape *)

\* Operands of matvec for a matrix of k columns: the right length and one
\* entry less or more, 1-D in either dtype and with two columns.
AnyLengthVecs(k) == UNION {VecChoices(n) : n \in {k - 1, k, k + 1} \ {0}}

\* Weights for n rows: the right length, one entry less or more, and an
\* (n, 1) array, in either dtype.
AnyShapeWeights(n) ==
    {[dtype |-> t, vec |-> [i \in 1..len |-> i + 1]] :
        t \in DTypes, len \in {n - 1, n, n + 1}}
      \cup {[dtype |-> t, vec |-> [i \in 1..n |-> i + 1], shape |-> <<n, 1>>] : t \in DTypes}

\* obj.matvec(v, cols, out) on a SplitMatrix, v of any length
MatvecAnyLength ==
    /\ Fresh
    /\ \E v \in AnyLengthVecs(Get(obj).k), cols \in ColChoices(Get(obj).k) :
          \E out \in {OutBuffer(NRows, v, ResultType(Get(obj).dtype, v.dtype))} :
              \E r \in {SplitMatvec(machine, Get(obj), v, cols, Some(out))} :
                  last' = [op |-> "matvec", v |-> v, rows |-> None, cols |-> cols,
                           given |-> out, calls |-> 1, out |-> r.out,
                           err |-> r.err, ret |-> r.ret]
    /\ UNCHANGED <<machine, inM, inI, argM, argI, obj, threads, displaced>>

\* obj.sandwich(d, rows, cols) on a SplitMatrix, d of any shape
SandwichAnyShape ==
    /\ Fresh
    /\ \E d \in AnyShapeWeights(NRows), rows \in RowChoices, cols \in ColChoices(Get(obj).k) :
          \E r \in {SplitSandwich(Get(obj), d, rows, cols)} :
              last' = [op |-> "sandwich", d |-> d, rows |-> rows, cols |-> cols,
                       err |-> r.err, ret |-> r.ret]
    /\ UNCHANGED <<machine, inM, inI, argM, argI, obj, threads, displaced>>

NextShape == SplitInitValid \/ MatvecAnyLength \/ SandwichAnyShape

SpecShape == Init /\ [][NextShape]_vars

\* C21: SplitMatrix.matvec raises ValueError when the first dimension of v
\* differs from n_cols, and SplitMatrix.sandwich raises ValueError when the
\* shape of d is not (n_rows,); the error comes before any sub-matrix is
\* called (it is ValueError whatever a sub-matrix would have raised), and a
\* caller's out buffer holds the values it held before the call.
C21_ShapeMismatchRaises ==
    IsSplit
    => /\ (last.op = "matvec" /\ last.v.n # Get(obj).k)
              => /\ last.err = "ValueError"
                 /\ IsNone(last.ret)
                 /\ Get(last.out) = last.given
       /\ (last.op = "sandwich"
               /\ ("shape" \in DOMAIN last.d \/ Len(last.d.vec) # Get(obj).n))
              => last.err = "ValueError" /\ IsNone(last.ret)

\* A two-column v one entry too long for an object with a categorical
\* sub-matrix, which on its own would raise NotImplementedError.
C21_Witness ==
    /\ IsSplit /\ last.op = "matvec"
    /\ last.v.n = Get(obj).k + 1 /\ last.v.nd = 2 /\ last.v.k = 2
    /\ \E p \in 1..Len(Get(obj).matrices) : Get(obj).matrices[p].kind = "cat"
    /\ last.err = "ValueError"
    /\ Get(last.out) = last.given

-----------------------------------------------------------------------------
(* SparseMatrix products with an operand of another dtype *)

\* C22, on the multi-column paths, where matvec_helper calls scipy's dot:
\* SparseMatrix.matvec and SparseMatrix.transpose_matvec fail with a type
\* error whenever the dtype of the operand differs from the dtype of the
\* matrix, unrestricted or restricted, and do not fall back to a converting
\* computation.
C22_OtherDtypeRaises ==
    (IsSparse /\ last.op \in {"matvec", "transpose_matvec"}
        /\ last.v.nd = 2 /\ last.v.k > 1
        /\ last.v.dtype # Get(obj).dtype)
    => last.err = "TypeError" /\ IsNone(last.ret)

-----------------------------------------------------------------------------
(* The dispatch of SparseMatrix.cross_sandwich *)

\* The peers a SparseMatrix is crossed with: a dense, a sparse and a
\* categorical matrix in either dtype, a SplitMatrix, and no matrix at all.
Peers ==
    {PairLeaf(k, 3, t) : k \in Kinds, t \in DTypes} \cup {Nested, NotAMatrix}

\* obj is a SparseMatrix, last.other its peer.
SparsePairInit ==
    /\ last.op = "none"
    /\ \E t \in DTypes, other \in Peers :
          /\ obj' = Some(PairLeaf("sparse", 1, t))
          /\ last' = [op |-> "init", err |-> NoError, other |-> other]
    /\ UNCHANGED <<machine, inM, inI, argM, argI, threads, displaced>>

\* res = obj.cross_sandwich(other, d, rows, L_cols, R_cols) on a SparseMatrix
SparseCrossSandwichCall ==
    /\ IsSparse
    /\ last.op = "init"
    /\ \E d \in Weights, rows \in RowChoices, L_cols \in ColChoices(2), R_cols \in ColChoices(2) :
          \E r \in {SparseCrossSandwich(Get(obj), last.other, d, rows, L_cols, R_cols)} :
              last' = [op |-> "cross_sandwich", other |-> last.other, d |-> d,
                       rows |-> rows, L_cols |-> L_cols, R_cols |-> R_cols,
                       err |-> r.err, res |-> r.arr]
    /\ UNCHANGED <<machine, inM, inI, argM, argI, obj, threads, displaced>>

NextDispatch == SparsePairInit \/ SparseCrossSandwichCall

SpecDispatch == Init /\ [][NextDispatch]_vars

\* C23: SparseMatrix.cross_sandwich(other, d, rows, L_cols, R_cols) dispatches
\* on the type of other: a dense array goes to the dense kernel, which first
\* raises TypeError unless the matrix, other and d share one dtype; a
\* categorical peer yields the transpose of
\* other.cross_sandwich(self, d, rows, R_cols, L_cols); every other peer raises
\* TypeError and nothing is computed.
C23_CrossSandwichDispatch ==
    (IsSparse /\ last.op = "cross_sandwich")
    => CASE last.other.kind = "dense" ->
                IF Get(obj).dtype = last.d.dtype /\ last.other.dtype = last.d.dtype
                THEN last.err = NoError /\ last.res = CrossReference
                ELSE last.err = "TypeError" /\ last.res = Zeros(0, 0)
         [] last.other.kind = "cat" ->
                /\ last.err = NoError
                /\ last.res = Transpose(PeerCrossSandwich(last.other, Get(obj), last.d,
                                            last.rows, last.R_cols, last.L_cols).arr)
         [] OTHER -> last.err = "TypeError" /\ last.res = Zeros(0, 0)

\* A categorical peer, the left restriction one column and the right one
\* absent: the result has one row and the peer's two columns.
C23_Witness ==
    /\ IsSparse /\ last.op = "cross_sandwich"
    /\ last.other.kind = "cat"
    /\ last.L_cols = Some(<<0>>) /\ IsNone(last.R_cols)
    /\ last.err = NoError
    /\ last.res.n = 1 /\ last.res.k = 2
-----------------------------------------------------------------------------
(* Item indexing of a SplitMatrix *)

\* The full slice, slice(None, None, None).
FullSlice == [kind |-> "slice", start |-> None, stop |-> None]

\* The row numbers a row selector of mat[row, :] picks out of n rows.
RowsOf(row, n) ==
    CASE row.kind = "list" -> row.idx
      [] row.kind = "slice" ->
            [q \in 1..((IF IsNone(row.stop) THEN n ELSE Get(row.stop))
                       - (IF IsNone(row.start) THEN 0 ELSE Get(row.start))) |->
                (IF IsNone(row.start) THEN 0 ELSE Get(row.start)) + q - 1]

\* mat[row, :] of a sub-matrix: a matrix of the same class over those rows.
LeafRows(mat, row) ==
    CASE mat.kind = "dense" ->
            DenseMatrix(TakeRows(LeafToArray(mat), RowsOf(row, mat.n)), mat.dtype)
      [] mat.kind = "sparse" ->
            SparseMatrix(TakeRows(LeafToArray(mat), RowsOf(row, mat.n)), mat.dtype)
      [] mat.kind = "cat" ->
            CategoricalMatrix([q \in 1..Len(RowsOf(row, mat.n)) |->
                                  mat.cat[RowsOf(row, mat.n)[q] + 1]],
                              mat.k, mat.dtype)

\* col == slice(None, None, None) as the if statement sees it: "true",
\* "false", or "ambiguous" when the comparison with an array of several
\* elements is an array of several booleans, whose truth value Python
\* refuses with a ValueError.
IsFullSlice(col) ==
    CASE col.kind = "slice" ->
            IF IsNone(col.start) /\ IsNone(col.stop) THEN "true" ELSE "false"
      [] col.kind = "array" -> IF Len(col.idx) > 1 THEN "ambiguous" ELSE "false"
      [] OTHER -> "false"

\* SplitMatrix.__getitem__(key): key is <<row>> or <<row, col>>.  ret is the
\* matrix returned and self the receiver as the call leaves it.
SplitGetitem(self, key) ==
    LET row == key[1]
        col == IF Len(key) = 2 THEN key[2] ELSE FullSlice
        rows == IF row.kind = "int" THEN [kind |-> "list", idx |-> <<row.i>>]
                ELSE row
        Built(r) ==
            [err |-> r.err, ret |-> r.obj,
             self |-> [self EXCEPT !.indices = Get(r.ai)]]
    IN  CASE IsFullSlice(col) = "ambiguous" ->
                [err |-> "ValueError", ret |-> None, self |-> self]
          [] IsFullSlice(col) = "true" ->
                Built(SplitMatrixInit(
                          [p \in 1..Len(self.matrices) |->
                              LeafRows(self.matrices[p], rows)],
                          Some(self.indices)))
          [] OTHER -> [err |-> "NotImplementedError", ret |-> None, self |-> self]

\* Row selectors: an integer, a list, a range.
RowSelectors ==
    {[kind |-> "int", i |-> 0], [kind |-> "int", i |-> NRows - 1],
     [kind |-> "list", idx |-> Perm(NRows, 2)],
     [kind |-> "list", idx |-> <<NRows - 1, NRows - 1, 0>>],
     [kind |-> "slice", start |-> Some(0), stop |-> Some(1)],
     [kind |-> "slice", start |-> Some(1), stop |-> None],
     FullSlice}

\* Column selectors of a matrix of k columns: the full slice and others.
ColSelectors(k) ==
    {FullSlice,
     [kind |-> "int", i |-> 0],
     [kind |-> "list", idx |-> <<k - 1>>],
     [kind |-> "list", idx |-> Perm(k, 1)],
     [kind |-> "slice", start |-> Some(0), stop |-> Some(1)],
     [kind |-> "array", idx |-> <<k - 1>>],
     [kind |-> "array", idx |-> Perm(k, 2)]}

Keys(k) ==
    {<<row>> : row \in RowSelectors}
        \cup {<<row, col>> : row \in RowSelectors, col \in ColSelectors(k)}

\* obj[key] on a SplitMatrix
Getitem ==
    /\ Fresh
    /\ \E key \in Keys(Get(obj).k) :
          \E r \in {SplitGetitem(Get(obj), key)} :
              /\ obj' = Some(r.self)
              /\ last' = [op |-> "getitem", key |-> key, before |-> Get(obj),
                          err |-> r.err, ret |-> r.ret]
    /\ UNCHANGED <<machine, inM, inI, argM, argI, threads, displaced>>

NextGetitem == SplitInitValid \/ Getitem

SpecGetitem == Init /\ [][NextGetitem]_vars

\* The key of the last call selects rows only.
RowsOnly ==
    Len(last.key) = 1 \/ last.key[2] = FullSlice

\* The rows the key of the last call selects.
SelectedRows ==
    IF last.key[1].kind = "int" THEN <<last.key[1].i>>
    ELSE RowsOf(last.key[1], last.before.n)

\* The part of C24 about row selectors: a SplitMatrix over the selected rows.
GetitemRows ==
    (IsSplit /\ last.op = "getitem" /\ RowsOnly) =>
        /\ last.err = NoError
        /\ Get(last.ret).kind = "split"
        /\ Get(last.ret).indices = last.before.indices
        /\ Get(last.ret).k = last.before.k
        /\ SplitToArray(Get(last.ret), 0)
               = TakeRows(SplitToArray(last.before, 0), SelectedRows)
        /\ Get(obj) = last.before

\* The part of C24 about column selectors: NotImplementedError.
GetitemCols ==
    (IsSplit /\ last.op = "getitem" /\ ~RowsOnly) =>
        /\ last.err = "NotImplementedError"
        /\ Get(obj) = last.before

\* C24: indexing a SplitMatrix with a row selector only returns a SplitMatrix
\* over the selected rows, with the same index arrays, the same column count
\* and the selected rows of the receiver's dense form; any other column
\* selector raises NotImplementedError; the receiver is unchanged.
C24_GetitemRowsOnly == GetitemRows /\ GetitemCols

\* The part of C24 that holds also for the column selectors that are arrays
\* of a single element, lists, integers and proper slices.
C24_Held ==
    (IsSplit /\ last.op = "getitem" /\ ~RowsOnly
        /\ ~(last.key[2].kind = "array" /\ Len(last.key[2].idx) > 1)) =>
        /\ last.err = "NotImplementedError"
        /\ Get(obj) = last.before
-----------------------------------------------------------------------------
(* Sub-matrices of different dtypes *)

\* Well-formed constructor arguments of two or more matrices, one of them
\* float32 and the others float64.
MixedInputs ==
    UNION {{[m |-> [p \in 1..Len(ks) |->
                       Leaf(ks[p], p, NRows, IF p = t THEN "float32" ELSE "float64")],
             i |-> ix] :
               t \in 1..Len(ks),
               ix \in {None} \cup {Some(x) : x \in Partitions(Widths(Leaves(ks, "all64")))}} :
           ks \in {k \in KindLists : Len(k) > 1}}

\* SplitMatrix(matrices, indices) with sub-matrices of two dtypes
SplitInitMixed == Construct(MixedInputs)

NextMixed == SplitInitMixed

SpecMixed == Init /\ [][NextMixed]_vars

\* The dtypes of the matrices given to the constructor are not all the same.
DtypesDiffer == \E p \in 1..Len(inM) : inM[p].dtype # inM[1].dtype

\* C25: constructing a SplitMatrix from sub-matrices whose dtypes differ raises
\* nothing and yields a SplitMatrix whose dtype is that of the first matrix of
\* the list given.
C25_MixedDtypes ==
    (last.op = "init" /\ DtypesDiffer) =>
        /\ last.err = NoError
        /\ IsSplit
        /\ Get(obj).dtype = inM[1].dtype

\* A float32 dense matrix came first and was merged with a float64 one: the
\* merged matrix is float64, the SplitMatrix float32.
C25_Witness ==
    /\ IsSplit /\ last.op = "init" /\ DtypesDiffer
    /\ inM[1].kind = "dense" /\ inM[1].dtype = "float32"
    /\ Len(Get(obj).matrices) < Len(inM)
    /\ Get(obj).matrices[1].dtype = "float64"
    /\ Get(obj).dtype = "float32"
-----------------------------------------------------------------------------
(* A StandardizedMatrix after calls on it *)

\* StandardizedMatrix.unstandardize()
Unstandardize(self) == self.mat

\* C26: after a call on a StandardizedMatrix (here astype, which is called
\* once on a newly built wrapper) its inner matrix, shift and multiplier are
\* what they were at construction, and unstandardize() returns that inner
\* matrix.
C26_StdKeepsItsParts ==
    (IsStd /\ last.op = "astype") =>
        /\ Get(obj).shift = last.before.shift
        /\ Get(obj).mult = last.before.mult
        /\ Unstandardize(Get(obj)) = last.before.mat

\* The part of C26 that holds: what astype leaves when a copy is asked for or
\* the inner matrix is no SplitMatrix.
C26_Held ==
    (IsStd /\ last.op = "astype" /\ (last.copy \/ last.before.mat.kind # "split")) =>
        /\ Get(obj).shift = last.before.shift
        /\ Get(obj).mult = last.before.mult
        /\ Unstandardize(Get(obj)) = last.before.mat
-----------------------------------------------------------------------------
(* Splitting a csc matrix by column density *)

\* A scipy csc matrix that stores, in column j, the rows stored[j] (1-based,
\* ascending) with the values of Table, zeros among them.
CscMatrix(n, stored, dtype) ==
    LET rowsOf == [j \in 1..Len(stored) |-> Positions(n, stored[j])]
    IN  [kind |-> "csc", dtype |-> dtype, n |-> n, k |-> Len(stored),
         indptr |-> [j \in 1..(Len(stored) + 1) |->
                        SumTo([c \in 1..Len(stored) |-> Len(rowsOf[c])], j - 1)],
         indices |-> Flatten([j \in 1..Len(stored) |->
                        [q \in 1..Len(rowsOf[j]) |-> rowsOf[j][q] - 1]]),
         data |-> Flatten([j \in 1..Len(stored) |->
                        [q \in 1..Len(rowsOf[j]) |-> Base(rowsOf[j][q], j)]])]

\* arg1[:, cols] of a csc matrix, cols an index array: the stored entries of
\* those columns, in that order.
CscTakeCols(m, cols) ==
    LET Width(c) == m.indptr[cols[c] + 2] - m.indptr[cols[c] + 1]
        Part(arr) ==
            Flatten([c \in 1..Len(cols) |->
                        [q \in 1..Width(c) |-> arr[m.indptr[cols[c] + 1] + q]]])
    IN  [kind |-> "csc", dtype |-> m.dtype, n |-> m.n, k |-> Len(cols),
         indptr |-> [j \in 1..(Len(cols) + 1) |->
                        SumTo([c \in 1..Len(cols) |-> Width(c)], j - 1)],
         indices |-> Part(m.indices),
         data |-> Part(m.data)]

\* SparseMatrix(arg1) of a csc matrix: the same arrays, no row-major view yet.
SparseFromCsc(m) ==
    [kind |-> "sparse", dtype |-> m.dtype, n |-> m.n, k |-> m.k,
     indptr |-> m.indptr, indices |-> m.indices, data |-> m.data, x_csr |-> None]

\* A threshold is the fraction num / den.  What the comparison would be were
\* it not strict.
NotBelow(count, n_rows, threshold) ==
    count * threshold.den >= threshold.num * n_rows

\* np.diff(arg1.indptr) / arg1.shape[0] > threshold, for one column.
Above(count, n_rows, threshold) ==
    count * threshold.den > threshold.num * n_rows

\* split_sparse_and_dense_parts(arg1, threshold): the four values returned.
SplitSparseAndDenseParts(arg1, threshold) ==
    LET dense_indices ==
            SelectPos(Arange(arg1.k), 1,
                      {j \in 1..arg1.k :
                          Above(arg1.indptr[j + 1] - arg1.indptr[j], arg1.n, threshold)})
        sparse_indices ==
            SelectPos(Arange(arg1.k), 1,
                      {j \in 1..arg1.k : (j - 1) \notin Range(dense_indices)})
    IN  IF arg1.kind \notin {"csc", "sparse"} THEN Raise("TypeError")
        ELSE IF ~(0 <= threshold.num /\ threshold.num <= threshold.den)
        THEN Raise("ValueError")
        ELSE Return([dense |-> DenseMatrix(TakeCols(CscToArray(arg1), dense_indices),
                                           arg1.dtype),
                     sparse |-> SparseFromCsc(CscTakeCols(arg1, sparse_indices)),
                     dense_indices |-> dense_indices,
                     sparse_indices |-> sparse_indices])

\* csc_to_split(mat, threshold): the error raised or the SplitMatrix built.
CscToSplit(mat, threshold) ==
    LET Build(parts) ==
            IF parts.err # NoError THEN [err |-> parts.err, obj |-> None]
            ELSE SplitMatrixInit(<<Get(parts.ret).dense, Get(parts.ret).sparse>>,
                                 Some(<<Get(parts.ret).dense_indices,
                                        Get(parts.ret).sparse_indices>>))
    IN  Build(SplitSparseAndDenseParts(mat, threshold))

\* csc matrices of NRows rows and fewer than MaxMats columns, every choice of
\* stored rows per column, and a dense array that is no csc matrix.
CscInputs ==
    UNION {{CscMatrix(NRows, stored, "float64") :
               stored \in [1..w -> SUBSET (1..NRows)]} : w \in 0..(MaxMats - 1)}
        \cup {PlainArray}

\* Thresholds in steps of 1 / (2 NRows), from below 0 to above 1.
Thresholds == {[num |-> a, den |-> 2 * NRows] : a \in (-1)..(2 * NRows + 1)}

\* split_sparse_and_dense_parts(mat, threshold)
SplitPartsCall ==
    /\ last.op = "none"
    /\ \E mat \in CscInputs, threshold \in Thresholds :
          \E r \in {SplitSparseAndDenseParts(mat, threshold)} :
              last' = [op |-> "split_parts", mat |-> mat, threshold |-> threshold,
                       err |-> r.err, ret |-> r.ret]
    /\ UNCHANGED <<machine, inM, inI, argM, argI, obj, threads, displaced>>

\* obj = csc_to_split(mat, threshold)
CscToSplitCall ==
    /\ last.op = "none"
    /\ \E mat \in CscInputs, threshold \in Thresholds :
          \E r \in {CscToSplit(mat, threshold)} :
              /\ obj' = r.obj
              /\ last' = [op |-> "csc_to_split", mat |-> mat, threshold |-> threshold,
                          err |-> r.err]
    /\ UNCHANGED <<machine, inM, inI, argM, argI, threads, displaced>>

NextCsc == SplitPartsCall \/ CscToSplitCall

SpecCsc == Init /\ [][NextCsc]_vars

\* The last call was given a csc matrix and a threshold in [0, 1].
CscCase(op) ==
    /\ last.op = op
    /\ last.mat.kind = "csc"
    /\ 0 <= last.threshold.num /\ last.threshold.num <= last.threshold.den

\* The number of stored entries of column j (1-based) of the matrix given.
StoredIn(j) == last.mat.indptr[j + 1] - last.mat.indptr[j]

\* Column j - 1 is in the dense part exactly when its density exceeds the
\* threshold, else in the sparse part; both index arrays ascend.
PartsByDensity(dense_indices, sparse_indices) ==
    /\ \A j \in 1..last.mat.k :
          /\ (j - 1) \in Range(dense_indices)
                <=> StoredIn(j) * last.threshold.den > last.threshold.num * last.mat.n
          /\ (j - 1) \in Range(sparse_indices) <=> (j - 1) \notin Range(dense_indices)
    /\ Len(dense_indices) + Len(sparse_indices) = last.mat.k
    /\ \A p, q \in 1..Len(dense_indices) : p < q => dense_indices[p] < dense_indices[q]
    /\ \A p, q \in 1..Len(sparse_indices) : p < q => sparse_indices[p] < sparse_indices[q]

\* What C27 says of split_sparse_and_dense_parts.
PartsClaim ==
    CscCase("split_parts") =>
        /\ last.err = NoError
        /\ PartsByDensity(Get(last.ret).dense_indices, Get(last.ret).sparse_indices)

\* What C27 says of csc_to_split.
SplitClaim ==
    /\ last.err = NoError
    /\ IsSplit
    /\ Get(obj).n = last.mat.n /\ Get(obj).k = last.mat.k
    /\ Len(Get(obj).matrices) = 2 /\ Len(Get(obj).indices) = 2
    /\ Get(obj).matrices[1].kind = "dense" /\ Get(obj).matrices[2].kind = "sparse"
    /\ PartsByDensity(Get(obj).indices[1], Get(obj).indices[2])
    /\ SplitToArray(Get(obj), 0) = CscToArray(last.mat)

\* C27 as stated: for every csc matrix and every threshold in [0, 1], column j
\* is dense exactly when stored(j) / n_rows > threshold, the index arrays are
\* ascending, disjoint and cover the columns, and csc_to_split gives a valid
\* SplitMatrix with the dense form of the matrix.
C27_EveryCscMatrix ==
    /\ PartsClaim
    /\ CscCase("csc_to_split") => SplitClaim

\* C27 for matrices of at least one column: the same, and csc_to_split builds
\* the SplitMatrix.
C27_SplitByDensity ==
    /\ PartsClaim
    /\ (CscCase("csc_to_split") /\ last.mat.k > 0) => SplitClaim

\* A matrix was split that has a column whose density equals the threshold
\* (sparse), a column above it (dense) and a stored zero.
C27_Witness ==
    /\ CscCase("csc_to_split") /\ IsSplit
    /\ \E j \in 1..last.mat.k :
          /\ StoredIn(j) * last.threshold.den = last.threshold.num * last.mat.n
          /\ StoredIn(j) > 0
          /\ (j - 1) \in Range(Get(obj).indices[2])
    /\ Len(Get(obj).indices[1]) > 0
    /\ \E q \in 1..Len(last.mat.data) : last.mat.data[q] = 0
-----------------------------------------------------------------------------
(* The constructor's arguments after the call *)

\* C28: after SplitMatrix(matrices, indices) has returned or raised, the two
\* list objects given hold the same elements in the same order as before.
C28_ArgumentsKept ==
    last.op = "init" => argM = inM /\ argI = inI

\* The part of C28 that holds: the lists are as they were when no two inputs
\* are both dense or both sparse.
C28_Held ==
    (last.op = "init"
        /\ \A p, q \in 1..Len(inM) :
              (p # q /\ inM[p].kind = inM[q].kind) => inM[p].kind \notin {"dense", "sparse"})
    => argM = inM /\ argI = inI
-----------------------------------------------------------------------------
(* The index width of the views x_csr returns *)

\* The view thread t was given had index arrays of the matrix's idx_dtype.
Coerced(t) ==
    /\ Get(threads[t].got).indices_dtype = Get(obj).idx_dtype
    /\ Get(threads[t].got).indptr_dtype = Get(obj).idx_dtype

\* C29: every view x_csr returns has index and pointer arrays of the matrix's
\* idx_dtype, also when the access runs while another thread is still in the
\* first build.
C29_ViewsCoerced ==
    (IsSparse /\ threads # <<>>) =>
        \A t \in 1..NThreads : ~IsNone(threads[t].got) => Coerced(t)

\* The part of C29 that holds: an access that ran while no other thread had
\* begun one was given a view of idx_dtype.
C29_Held ==
    (IsSparse /\ threads # <<>>) =>
        \A t \in 1..NThreads :
            (~IsNone(threads[t].got) /\ \A u \in 1..NThreads : u # t => threads[u] = Idle)
                => Coerced(t)
-----------------------------------------------------------------------------
(* The caller's buffer after a product that raised *)

\* C30: when SplitMatrix.matvec or SplitMatrix.transpose_matvec raises because
\* a sub-matrix refuses the operand, the caller's out buffer holds what it
\* held before the call (stated here for v of the sub-matrices' dtype).
C30_OutKeptOnError ==
    (IsSplit /\ last.op \in {"matvec", "transpose_matvec"}
        /\ "given" \in DOMAIN last /\ last.calls = 1 /\ OperandTypeShared
        /\ last.err # NoError)
    => last.out = Some(last.given)

\* The part of C30 that holds: the buffer is as it was when the sub-matrix
\* that refuses is the first of the loop.
C30_Held ==
    (IsSplit /\ last.op = "matvec"
        /\ "given" \in DOMAIN last /\ last.calls = 1
        /\ last.err = "NotImplementedError"
        /\ Get(obj).matrices[1].kind = "cat")
    => last.out = Some(last.given)

=============================================================================
